---- MODULE Spec2Model ----
(***************************************************************************)
(* A model of the degen-server sentiment pipeline:                         *)
(*   - the SentimentClient job processor and its bull queue                *)
(*     (src/src/clients/sentimentClient.ts, the self-rescheduling variant, *)
(*      and src/src/redis/config.ts, the repeat variant);                  *)
(*   - the cache-aside operations of TweetScraper and TweetAnalyzer        *)
(*     (src/src/services/tweetScraper.ts, src/src/services/tweetAnalyzer.ts)*)
(*   - TweetAnalyzer.analyzeTweets, batch by batch;                        *)
(*   - TweetAnalyzer.calculateCredibilityScore and its four sub-scores;    *)
(*   - TweetScraper.initialize, the three ways to a session;               *)
(*   - SentimentClient.initialize and shutdown, and runMainLoop from the   *)
(*     fetches to its last step (publish or snapshot).                     *)
(* Each part has its own specification over the shared variables; the      *)
(* variables of the other parts stay at their initial values.              *)
(***************************************************************************)
EXTENDS Integers, Sequences, FiniteSets, TLC

VARIABLES
  variant,      \* "chain": sentimentClient.ts setupQueue; "repeat": redis/config.ts setupQueue
  concurrency,  \* how many jobs the queue worker may hold active at once
  phase,        \* "constructed" until setupQueue has run, then "ready"
  isRunning,    \* SentimentClient.isRunning
  job,          \* analysisQueue: slot -> [st, attemptsMade, repeat, fetched]
  pc,           \* slot -> position of the processor invocation for that job
  threw,        \* slot -> runMainLoop threw in the current invocation
  lastAttempt,  \* what the queue recorded for the attempt it settled last
  failedPending,\* a cycle has failed and no runMainLoop has started since
  now,          \* the time in seconds
  cache,        \* redis: key -> [val, exp], val the string stored, exp its expiry time
  subject,      \* the parameters the calls of this run are made with
  calls,        \* call slot -> one call of a cache-aside operation
  stored,       \* parameters -> the value last stored by a call with them, and when
  tweets,       \* analyzeTweets: the tweets passed in (each stands for its id)
  apc,          \* analyzeTweets: where the call is
  i,            \* analyzeTweets: the loop variable i
  items,        \* analyzeTweets: position in tweets -> its getCachedAnalysis call
  results,      \* analyzeTweets: the array results
  output,       \* analyzeTweets: the array returned
  oracleCalls,  \* tweet id -> requests sent to the oracle for it
  scored,       \* calculateCredibilityScore: the tweet's counters and the scores computed
  env,          \* process.env and the cookie file, as TweetScraper.initialize finds them
  session,      \* TweetScraper.initialize: position, loginRetries, and what it has tried
  feed,         \* the channel sentiment:updates: the last message published on it
  cycle,        \* runMainLoop step by step: position, tweets fetched, analyzed, significant
  conn,         \* the bull queue and the redis connection: open or closed
  shutdowns,    \* signal handler -> position of its shutdown() call
  requests,     \* analyzeTweets over the cycles: the oracle requests in flight, counted
  balance       \* BalanceClient: initialize, the recurring job and the processor

orchVars == <<variant, concurrency, phase, isRunning, job, pc, threw, lastAttempt, failedPending>>

cacheVars == <<now, cache>>

fetchVars == <<subject, calls, stored>>

analyzeVars == <<tweets, apc, i, items, results, output, oracleCalls>>

scoreVars == <<scored>>

\* the variables outside the queue, the cache and analyzeTweets
sessionVars == <<env, session>>

feedVars == <<feed, cycle>>

shutdownVars == <<conn, shutdowns>>

clientVars == <<requests, balance>>

serviceVars == <<scoreVars, sessionVars, feedVars, shutdownVars, clientVars>>

vars == <<orchVars, cacheVars, fetchVars, analyzeVars, serviceVars>>

----------------------------------------------------------------------------
(* Bounds of the model *)

\* job slots of the queue
MaxJobs == 3
\* the largest worker concurrency explored (the source registers the
\* processor without a concurrency argument, i.e. 1)
MaxConcurrency == 2

(* Program constants *)

\* attempts: 3 in the job options
ATTEMPTS == 3

Slots == 1..MaxJobs

\* delay: 30000, the delay option of the job the processor adds (ms)
CHAIN_DELAY_MS == 30000

\* repeat: {every: 5 * 60 * 1000} (ms)
REPEAT_EVERY_MS == 300000

\* delay is the time in ms the job is held back from when it is added
NoJob == [st |-> "none", attemptsMade |-> 0, repeat |-> FALSE, fetched |-> FALSE, delay |-> 0]

NoAttempt == [threw |-> FALSE, outcome |-> "none", attemptsMade |-> 0]

----------------------------------------------------------------------------
(* The redis cache *)

\* a read that ignores the TTL of the entry
redisGetStale(key) ==
  IF key \in DOMAIN cache THEN cache[key].val ELSE ""

\* redis.get(key): the stored string, or "" (null) when the key is absent
\* or its TTL has run out
redisGet(key) ==
  IF key \in DOMAIN cache /\ now < cache[key].exp THEN cache[key].val ELSE ""

\* a write that appends to the value the key holds (APPEND)
redisAppend(key, seconds, value) ==
  [k \in DOMAIN cache \cup {key} |->
     IF k = key
     THEN [val |-> (IF key \in DOMAIN cache THEN cache[key].val ELSE "") \o value,
           exp |-> now + seconds]
     ELSE cache[k]]

\* redis.setex(key, seconds, value)
redisSetex(key, seconds, value) ==
  [k \in DOMAIN cache \cup {key} |->
     IF k = key THEN [val |-> value, exp |-> now + seconds] ELSE cache[k]]

\* a test that also takes the texts "0" and "[]" for a miss
IsHitNonZero(cached) == cached \notin {"", "0", "[]"}

\* if (cached): a non-empty string counts as a hit
IsHit(cached) == cached # ""

----------------------------------------------------------------------------
(* JSON texts *)

RECURSIVE Join(_)
Join(ss) ==
  IF Len(ss) = 0 THEN ""
  ELSE IF Len(ss) = 1 THEN ss[1]
  ELSE ss[1] \o "," \o Join(Tail(ss))

\* JSON.stringify of a list of tweets (each tweet stands for its id) or of
\* trend names
StringifyList(ss) == "[" \o Join(ss) \o "]"

\* JSON.stringify(profile)
StringifyProfile(pr) ==
  "{username:" \o pr.username \o ",followersCount:" \o ToString(pr.followersCount) \o "}"

\* the value of a property the parsed object does not have
Undefined == -1

\* JSON.stringify(analyzed.analysis); numbers are in hundredths, and a
\* property whose value is undefined is left out
StringifyAnalysis(a) ==
  "{sentiment:" \o a.sentiment
     \o (IF a.score = Undefined THEN "" ELSE ",score:" \o ToString(a.score))
     \o ",credibilityScore:" \o ToString(a.credibilityScore) \o "}"

----------------------------------------------------------------------------
(* The queue *)

Live(j) == job[j].st # "none"

\* waiting, delayed or active jobs
Outstanding == {j \in Slots : Live(j)}

Active == {j \in Slots : job[j].st = "active"}

FreeSlots == {j \in Slots : ~Live(j)}

FirstFree == CHOOSE j \in FreeSlots : \A k \in FreeSlots : j <= k

\* runMainLoop invocations in flight
InFlight == {j \in Slots : pc[j] = "main"}

\* both strategies at once: a repeatable first job under either processor
InitialJobMixed ==
  [st |-> "delayed", attemptsMade |-> 0, repeat |-> TRUE, fetched |-> FALSE,
   delay |-> REPEAT_EVERY_MS]

\* the job options of the first add of setupQueue: the chain variant adds a
\* plain job (no delay), the repeat variant a repeatable one, whose first
\* instance waits for the next interval
InitialJob ==
  IF variant = "repeat"
  THEN [st |-> "delayed", attemptsMade |-> 0, repeat |-> TRUE, fetched |-> FALSE,
        delay |-> REPEAT_EVERY_MS]
  ELSE [st |-> "waiting", attemptsMade |-> 0, repeat |-> FALSE, fetched |-> FALSE,
        delay |-> 0]

\* a successor added without the delay option
SuccessorJobAtOnce ==
  [st |-> "waiting", attemptsMade |-> 0, repeat |-> FALSE, fetched |-> FALSE, delay |-> 0]

\* the job the processor's finally block adds: delay 30000, no repeat
SuccessorJob ==
  [st |-> "delayed", attemptsMade |-> 0, repeat |-> FALSE, fetched |-> FALSE,
   delay |-> CHAIN_DELAY_MS]

\* the next instance of the repeatable job (every 5 minutes)
RepeatInstance ==
  [st |-> "delayed", attemptsMade |-> 0, repeat |-> TRUE, fetched |-> FALSE,
   delay |-> REPEAT_EVERY_MS]

\* setupQueue: empty() the queue, register the processor, add the first job
setupQueueWithoutSession ==
  /\ phase = "constructed"
  /\ phase' = "ready"
  /\ job' = [j \in Slots |-> IF j = 1 THEN InitialJob ELSE NoJob]
  /\ UNCHANGED <<cacheVars, fetchVars, analyzeVars, serviceVars>>
  /\ UNCHANGED <<variant, concurrency, isRunning, pc, threw, lastAttempt, failedPending>>

\* SentimentClient.initialize: setupQueue runs after tweetScraper.initialize
\* has returned
setupQueue ==
  /\ session.pc = "ready"
  /\ phase = "constructed"
  /\ phase' = "ready"
  /\ job' = [j \in Slots |-> IF j = 1 THEN InitialJob ELSE NoJob]
  /\ UNCHANGED <<cacheVars, fetchVars, analyzeVars, serviceVars>>
  /\ UNCHANGED <<variant, concurrency, isRunning, pc, threw, lastAttempt, failedPending>>

\* a delay (first repeat interval, 30 s chain delay, retry backoff) elapses
Promote(j) ==
  /\ phase = "ready"
  /\ job[j].st = "delayed"
  /\ job' = [job EXCEPT ![j].st = "waiting"]
  /\ UNCHANGED <<cacheVars, fetchVars, analyzeVars, serviceVars>>
  /\ UNCHANGED <<variant, concurrency, phase, isRunning, pc, threw, lastAttempt, failedPending>>

\* a repeatable job that is taken for processing schedules the next instance,
\* unless that instance is already in the queue
NeedsNextInstance(j) ==
  /\ job[j].repeat
  /\ ~\E k \in Slots \ {j} : Live(k) /\ job[k].repeat /\ ~job[k].fetched

\* a worker that goes on taking jobs when the queue is closing or closed
FetchWhenClosed(j) ==
  /\ phase = "ready"
  /\ job[j].st = "waiting"
  /\ pc[j] = "none"
  /\ Cardinality(Active) < concurrency
  /\ IF NeedsNextInstance(j)
     THEN /\ FreeSlots # {}
          /\ job' = [job EXCEPT ![j].st = "active", ![j].fetched = TRUE,
                                ![FirstFree] = RepeatInstance]
     ELSE job' = [job EXCEPT ![j].st = "active", ![j].fetched = TRUE]
  /\ pc' = [pc EXCEPT ![j] = "called"]
  /\ UNCHANGED <<cacheVars, fetchVars, analyzeVars, serviceVars>>
  /\ UNCHANGED <<variant, concurrency, phase, isRunning, threw, lastAttempt, failedPending>>

\* the worker takes a waiting job and calls the processor with it; a queue
\* that is closing or closed takes no further job
Fetch(j) ==
  /\ phase = "ready"
  /\ conn.queue = "open"
  /\ job[j].st = "waiting"
  /\ pc[j] = "none"
  /\ Cardinality(Active) < concurrency
  /\ IF NeedsNextInstance(j)
     THEN /\ FreeSlots # {}
          /\ job' = [job EXCEPT ![j].st = "active", ![j].fetched = TRUE,
                                ![FirstFree] = RepeatInstance]
     ELSE job' = [job EXCEPT ![j].st = "active", ![j].fetched = TRUE]
  /\ pc' = [pc EXCEPT ![j] = "called"]
  /\ UNCHANGED <<cacheVars, fetchVars, analyzeVars, serviceVars>>
  /\ UNCHANGED <<variant, concurrency, phase, isRunning, threw, lastAttempt, failedPending>>

----------------------------------------------------------------------------
(* The processor registered by setupQueue *)

\* a processor without the guard
SkipsNever == FALSE

\* the single-flight guard: if (this.isRunning) return
Skips == isRunning

\* a guard placed inside the try block: its return runs the finally block
ProcessorSkipInTry(j) ==
  /\ pc[j] = "called"
  /\ Skips
  /\ isRunning' = FALSE
  /\ pc' = [pc EXCEPT ![j] = IF variant = "chain" THEN "adding" ELSE "skipped"]
  /\ UNCHANGED <<cacheVars, fetchVars, analyzeVars, serviceVars>>
  /\ UNCHANGED <<variant, concurrency, phase, job, threw, lastAttempt, failedPending>>

\* the processor returns at once: the trigger is dropped
ProcessorSkip(j) ==
  /\ pc[j] = "called"
  /\ Skips
  /\ pc' = [pc EXCEPT ![j] = "skipped"]
  /\ UNCHANGED <<cacheVars, fetchVars, analyzeVars, serviceVars>>
  /\ UNCHANGED <<variant, concurrency, phase, isRunning, job, threw, lastAttempt, failedPending>>

\* this.isRunning = true; await this.runMainLoop()
ProcessorStart(j) ==
  /\ pc[j] = "called"
  /\ ~Skips
  /\ isRunning' = TRUE
  /\ pc' = [pc EXCEPT ![j] = "main"]
  /\ failedPending' = FALSE
  /\ UNCHANGED <<cacheVars, fetchVars, analyzeVars, serviceVars>>
  /\ UNCHANGED <<variant, concurrency, phase, job, threw, lastAttempt>>

\* a processor that adds the successor at the end of the try block only
AfterThrowNoSuccessor == IF variant = "chain" THEN "resolved" ELSE "rejected"

\* where the processor goes when runMainLoop has thrown: the chain variant's
\* catch only logs and the finally block adds the successor; the repeat
\* variant's catch rethrows
AfterThrow == IF variant = "chain" THEN "adding" ELSE "rejected"

\* where the processor goes when runMainLoop has returned
AfterReturn == IF variant = "chain" THEN "adding" ELSE "resolved"

\* the lists of significant tweets a cycle can end with
SignificantSets == {<<>>, <<"t1">>}

\* redis.setex('latest_analysis', 3600, ...) of the repeat variant
SNAPSHOT_EXPIRY == 3600

\* JSON.stringify of the envelope {timestamp, metadata, statistics, tweets}
StringifyEnvelopeAt(timestamp, significant) ==
  "{timestamp:" \o ToString(timestamp) \o ",significantTweetsCount:"
     \o ToString(Len(significant)) \o ",tweets:" \o StringifyList(significant) \o "}"

\* timestamp: Date.now()
StringifyEnvelope(significant) == StringifyEnvelopeAt(now, significant)

\* JSON.stringify(significantTweets)
StringifySnapshot(significant) == StringifyList(significant)

NoFeed == [broadcast |-> "", succeeded |-> FALSE]

\* no runMainLoop has been followed step by step
\* no analyzeTweets call has been counted
NoRequests ==
  [pc |-> "idle", n |-> 0, left |-> 0, inFlight |-> 0, stragglers |-> 0]

\* the BalanceClient as constructed: isRunning = false, no job in the queue
NoBalance ==
  [pc |-> "constructed", isRunning |-> FALSE, armed |-> FALSE, due |-> FALSE,
   retry |-> FALSE, worker |-> "idle", attemptsMade |-> 0, fired |-> 0]

ClientIdle == requests = NoRequests /\ balance = NoBalance

\* a quotient of two numbers, kept as a fraction: den = 0 stands for the
\* NaN that 0 / 0 gives, which JSON.stringify writes as null
Quotient(num, den) == [num |-> num, den |-> den]

\* the statistics of an envelope that was not built
NoStatistics == [averageScore |-> Quotient(0, 1), averageCredibility |-> Quotient(0, 1)]

NoCycle ==
  [pc |-> "idle", n |-> 0, allTweets |-> <<>>, analyzedTweets |-> <<>>,
   significantTweets |-> <<>>, rewritten |-> FALSE, statistics |-> NoStatistics]

\* the last step of a successful runMainLoop: sentimentClient.ts publishes
\* the envelope on sentiment:updates; redis/config.ts stores the list of
\* significant tweets under latest_analysis
LastStep(significant) ==
  IF variant = "chain"
  THEN /\ feed' = [broadcast |-> StringifyEnvelope(significant), succeeded |-> TRUE]
       /\ cache' = cache
  ELSE /\ feed' = [feed EXCEPT !.succeeded = TRUE]
       /\ cache' = redisSetex("latest_analysis", SNAPSHOT_EXPIRY,
                              StringifySnapshot(significant))

\* runMainLoop performs its last step and returns; finally: this.isRunning = false
MainLoopReturns(j) ==
  /\ pc[j] = "main"
  /\ \E significant \in SignificantSets : LastStep(significant)
  /\ isRunning' = FALSE
  /\ pc' = [pc EXCEPT ![j] = AfterReturn]
  /\ UNCHANGED <<now, cycle, fetchVars, analyzeVars, scoreVars, sessionVars, shutdownVars,
               clientVars>>
  /\ UNCHANGED <<variant, concurrency, phase, job, threw, lastAttempt, failedPending>>

\* a processor whose flag is cleared at the end of the try block only
MainLoopThrowsKeepsFlag(j) ==
  /\ pc[j] = "main"
  /\ threw' = [threw EXCEPT ![j] = TRUE]
  /\ pc' = [pc EXCEPT ![j] = AfterThrow]
  /\ failedPending' = TRUE
  /\ UNCHANGED <<cacheVars, fetchVars, analyzeVars, serviceVars>>
  /\ UNCHANGED <<variant, concurrency, phase, isRunning, job, lastAttempt>>

\* runMainLoop throws (it rethrows what fetch, scoring or publish threw);
\* catch, then finally: this.isRunning = false
MainLoopThrows(j) ==
  /\ pc[j] = "main"
  /\ isRunning' = FALSE
  /\ threw' = [threw EXCEPT ![j] = TRUE]
  /\ pc' = [pc EXCEPT ![j] = AfterThrow]
  /\ failedPending' = TRUE
  /\ UNCHANGED <<cacheVars, fetchVars, analyzeVars, serviceVars>>
  /\ UNCHANGED <<variant, concurrency, phase, job, lastAttempt>>

\* chain variant, finally: await this.analysisQueue.add({}, {... delay: 30000})
AddSuccessor(j) ==
  /\ pc[j] = "adding"
  /\ FreeSlots # {}
  /\ job' = [job EXCEPT ![FirstFree] = SuccessorJob]
  /\ pc' = [pc EXCEPT ![j] = "resolved"]
  /\ UNCHANGED <<cacheVars, fetchVars, analyzeVars, serviceVars>>
  /\ UNCHANGED <<variant, concurrency, phase, isRunning, threw, lastAttempt, failedPending>>

\* the queue settles the attempt: a resolved processor completes the job
\* (removeOnComplete), a rejected one fails the attempt, and the job is
\* retried after its backoff while attemptsMade < attempts
SettleResolved(j) ==
  /\ pc[j] \in {"resolved", "skipped"}
  /\ job' = [job EXCEPT ![j] = NoJob]
  /\ pc' = [pc EXCEPT ![j] = "none"]
  /\ lastAttempt' = [threw |-> threw[j], outcome |-> "completed",
                     attemptsMade |-> job[j].attemptsMade + 1]
  /\ threw' = [threw EXCEPT ![j] = FALSE]
  /\ UNCHANGED <<cacheVars, fetchVars, analyzeVars, serviceVars>>
  /\ UNCHANGED <<variant, concurrency, phase, isRunning, failedPending>>

SettleRejected(j) ==
  /\ pc[j] = "rejected"
  /\ job' = IF job[j].attemptsMade + 1 < ATTEMPTS
            THEN [job EXCEPT ![j].st = "delayed", ![j].attemptsMade = @ + 1]
            ELSE [job EXCEPT ![j] = NoJob]
  /\ pc' = [pc EXCEPT ![j] = "none"]
  /\ lastAttempt' = [threw |-> threw[j], outcome |-> "failed",
                     attemptsMade |-> job[j].attemptsMade + 1]
  /\ threw' = [threw EXCEPT ![j] = FALSE]
  /\ UNCHANGED <<cacheVars, fetchVars, analyzeVars, serviceVars>>
  /\ UNCHANGED <<variant, concurrency, phase, isRunning, failedPending>>

----------------------------------------------------------------------------
(* TweetAnalyzer: the credibility score *)

\* Scores are fixed-point numbers: Unit stands for 1.0
Unit == 10000

\* the counters of the model are 10^k - 1, k up to MaxDecade
MaxDecade == 6

RECURSIVE Pow10(_)
Pow10(k) == IF k = 0 THEN 1 ELSE 10 * Pow10(k - 1)

\* Math.log10(n) in Units, for n a power of ten (exact there)
RECURSIVE Log10(_)
Log10(n) == IF n < 10 THEN 0 ELSE Unit + Log10(n \div 10)

Min(a, b) == IF a <= b THEN a ELSE b
Max(a, b) == IF a >= b THEN a ELSE b

\* TweetAnalyzer.credibilityWeights
credibilityWeights ==
  [topicRelevance |-> 3500, engagement |-> 2500,
   communitySignals |-> 2500, contentPatterns |-> 1500]

\* the product of two fixed-point numbers
Times(a, b) == (a * b) \div Unit

\* Math.min((likes + retweets + replies) / views, 1)
Rate(sum, views) == IF sum >= views THEN Unit ELSE (sum * Unit) \div views

calculateEngagementScore(tweet) ==
  LET normalizedLikes == (Log10(tweet.likes + 1) * Unit) \div Log10(100000)
      normalizedRetweets == (Log10(tweet.retweets + 1) * Unit) \div Log10(100000)
      normalizedReplies == (Log10(tweet.replies + 1) * Unit) \div Log10(10000)
      normalizedBookmarks == (Log10(tweet.bookmarkCount + 1) * Unit) \div Log10(10000)
      engagementRate == IF tweet.views > 0
                        THEN Rate(tweet.likes + tweet.retweets + tweet.replies, tweet.views)
                        ELSE 0
  IN Times(normalizedLikes, 3000) + Times(normalizedRetweets, 3000)
       + Times(normalizedReplies, 2000) + Times(normalizedBookmarks, 1000)
       + Times(engagementRate, 1000)

\* text.split(/\s+/).length, text given as its sequence of words: the empty
\* text splits into one empty piece
wordCount(text) == IF Len(text) = 0 THEN 1 ELSE Len(text)

\* a content score that does not penalise sensitive content
calculateContentQualityScoreLenient(tweet) ==
  LET words == wordCount(tweet.text)
      s1 == Min((words * Unit) \div 50, 3000)
      s2 == s1 + (IF tweet.hashtags * 5 <= words THEN 1500 ELSE -1000)
      s3 == s2 + (IF tweet.urls > 0 THEN 1500 ELSE 0)
      s4 == s3 + (IF tweet.mentions * 10 <= words THEN 1000 ELSE -1000)
      score == s4 + (IF tweet.poll THEN 1500 ELSE 0)
  IN Max(0, Min(score, Unit))

\* hashtags, urls, mentions, photos, videos and thread are given by their
\* lengths
calculateContentQualityScore(tweet) ==
  LET words == wordCount(tweet.text)
      s1 == Min((words * Unit) \div 50, 3000)
      s2 == s1 + (IF tweet.hashtags * 5 <= words THEN 1500 ELSE -1000)
      s3 == s2 + (IF tweet.urls > 0 THEN 1500 ELSE 0)
      s4 == s3 + (IF tweet.mentions * 10 <= words THEN 1000 ELSE -1000)
      s5 == s4 + (IF tweet.poll THEN 1500 ELSE 0)
      score == s5 - (IF tweet.sensitiveContent THEN 2000 ELSE 0)
  IN Max(0, Min(score, Unit))

\* a behaviour score that starts from 0 instead of the neutral 0.5
calculateUserBehaviorScoreFromZero(tweet) ==
  LET s1 == 0 + (IF tweet.isRetweet THEN -1000 ELSE 2000)
      s2 == s1 + (IF tweet.isQuoted THEN 1000 ELSE 0)
      s3 == s2 + (IF tweet.isSelfThread
                  THEN 1500 + Min(tweet.thread * 500, 1500) ELSE 0)
      s4 == s3 + (IF tweet.isPin THEN 1000 ELSE 0)
      score == s4 + (IF tweet.isReply THEN 1000 ELSE 0)
  IN Max(0, Min(score, Unit))

calculateUserBehaviorScore(tweet) ==
  LET s1 == 5000 + (IF tweet.isRetweet THEN -1000 ELSE 2000)
      s2 == s1 + (IF tweet.isQuoted THEN 1000 ELSE 0)
      s3 == s2 + (IF tweet.isSelfThread
                  THEN 1500 + Min(tweet.thread * 500, 1500) ELSE 0)
      s4 == s3 + (IF tweet.isPin THEN 1000 ELSE 0)
      score == s4 + (IF tweet.isReply THEN 1000 ELSE 0)
  IN Max(0, Min(score, Unit))

calculateMediaRichnessScore(tweet) ==
  LET s1 == (IF tweet.photos > 0 THEN 3000 ELSE 0)
              + (IF tweet.videos > 0 THEN 4000 ELSE 0)
      s2 == s1 + (IF tweet.photos = 0 /\ tweet.videos = 0
                     /\ (tweet.urls > 0 \/ tweet.poll)
                  THEN 2000 ELSE 0)
      score == s2 - (IF tweet.photos + tweet.videos > 4 THEN 2000 ELSE 0)
  IN Max(0, Min(score, Unit))

\* the weighted sum of the four sub-scores
WeightedSum(tweet) ==
  Times(calculateEngagementScore(tweet), credibilityWeights.engagement)
    + Times(calculateContentQualityScore(tweet), credibilityWeights.contentPatterns)
    + Times(calculateUserBehaviorScore(tweet), credibilityWeights.communitySignals)
    + Times(calculateMediaRichnessScore(tweet), credibilityWeights.topicRelevance)

calculateCredibilityScoreUnweighted(tweet) ==
  calculateEngagementScore(tweet) + calculateContentQualityScore(tweet)
    + calculateUserBehaviorScore(tweet) + calculateMediaRichnessScore(tweet)

calculateCredibilityScore(tweet) == Min(WeightedSum(tweet), Unit)

\* a text of n words
Words(n) == [k \in 1..n |-> "w"]

\* the counter values of the model: none, the normalisation base of the
\* likes, and the largest
Counters == {0, Pow10(5) - 1, Pow10(MaxDecade) - 1}

\* the tweets the score is computed for
ScoredTweets ==
  [ likes : Counters, retweets : {0, Pow10(MaxDecade) - 1},
    replies : {0, Pow10(4) - 1}, bookmarkCount : {0, Pow10(4) - 1},
    views : {0, 1000},
    text : {Words(0), Words(60)}, hashtags : {0, 5}, urls : {0, 1},
    mentions : {0, 3}, sensitiveContent : BOOLEAN, poll : BOOLEAN,
    isRetweet : BOOLEAN, isQuoted : BOOLEAN, isReply : BOOLEAN,
    isSelfThread : BOOLEAN, isPin : BOOLEAN, thread : {4},
    photos : {0, 1, 5}, videos : {0, 1} ]

\* a tweet with no engagement, one word and no media
PlainTweet ==
  [ likes |-> 0, retweets |-> 0, replies |-> 0, bookmarkCount |-> 0, views |-> 0,
    text |-> Words(1), hashtags |-> 0, urls |-> 0, mentions |-> 0,
    sensitiveContent |-> FALSE, poll |-> FALSE,
    isRetweet |-> FALSE, isQuoted |-> FALSE, isReply |-> FALSE,
    isSelfThread |-> FALSE, isPin |-> FALSE, thread |-> 0,
    photos |-> 0, videos |-> 0 ]

\* a sensitive tweet of ten words, eight of them hashtags, that nobody has
\* seen or reacted to; the fields it does not give take their defaults
ExampleTweet ==
  [PlainTweet EXCEPT !.text = Words(10), !.hashtags = 8, !.sensitiveContent = TRUE]

NotScored ==
  [pc |-> "idle", likes |-> 0, retweets |-> 0, replies |-> 0, views |-> 0,
   words |-> 0, hashtags |-> 0, sensitiveContent |-> FALSE,
   engagementScore |-> 0, contentQualityScore |-> 0, userBehaviorScore |-> 0,
   mediaRichnessScore |-> 0, credibilityScore |-> 0]

\* calculateCredibilityScore(tweet) is evaluated
Score(tweet) ==
  /\ scored.pc = "idle"
  /\ scored' = [pc |-> "scored", likes |-> tweet.likes, retweets |-> tweet.retweets,
                replies |-> tweet.replies, views |-> tweet.views,
                words |-> wordCount(tweet.text), hashtags |-> tweet.hashtags,
                sensitiveContent |-> tweet.sensitiveContent,
                engagementScore |-> calculateEngagementScore(tweet),
                contentQualityScore |-> calculateContentQualityScore(tweet),
                userBehaviorScore |-> calculateUserBehaviorScore(tweet),
                mediaRichnessScore |-> calculateMediaRichnessScore(tweet),
                credibilityScore |-> calculateCredibilityScore(tweet)]
  /\ UNCHANGED <<orchVars, cacheVars, fetchVars, analyzeVars, sessionVars, feedVars, shutdownVars,
               clientVars>>

ScoreIdle == scored = NotScored

----------------------------------------------------------------------------
(* TweetScraper.initialize *)

\* const MAX_LOGIN_RETRIES = 3
MAX_LOGIN_RETRIES == 3

\* scraper.login calls are counted up to MaxLogins
MaxLogins == 5

\* setTimeout(resolve, 5000 * loginRetries)
RETRY_DELAY_MS == 5000

\* the process is started up to MaxRuns times
MaxRuns == 2

\* TWITTER_COOKIES: unset, a JSON array, JSON that is no array, or no JSON;
\* the cookie file of an earlier run: absent, a JSON array, JSON that is no
\* array, or unreadable; TWITTER_USERNAME && TWITTER_PASSWORD: set or not
Environments ==
  [ TWITTER_COOKIES : {"unset", "array", "notArray", "malformed"},
    cookiesFile : {"absent", "array", "notArray", "unreadable"},
    credentials : BOOLEAN ]

\* failures counts the login attempts that did not end in a session, wait
\* is the time in ms initialize waited after the last of them; saved tells
\* that this run has written the cookie file, savedBefore that an earlier
\* run has, confirmed that isLoggedIn has answered true after a login
NoSession ==
  [pc |-> "idle", loginRetries |-> 0, logins |-> 0, tried |-> <<>>,
   rejected |-> {}, validated |-> "none", error |-> "none",
   failures |-> 0, wait |-> 0, saved |-> FALSE, run |-> 1, savedBefore |-> FALSE,
   confirmed |-> FALSE]

\* the source is attempted: it is noted once, in the order of the attempts
Attempt(s, source) ==
  IF Len(s.tried) > 0 /\ s.tried[Len(s.tried)] = source THEN s
  ELSE [s EXCEPT !.tried = Append(s.tried, source)]

\* the source did not yield a session
Reject(s, source) == [s EXCEPT !.rejected = s.rejected \cup {source}]

\* a login attempt has failed; nothing has been waited for since
FailedAttempt(s) ==
  [Reject(s, "credentials") EXCEPT
     !.failures = IF s.failures < MaxLogins THEN s.failures + 1 ELSE s.failures,
     !.wait = 0]

\* return from initialize after a successful isLoggedIn probe
Return(s, source) == [s EXCEPT !.pc = "ready", !.validated = source]

\* the outer catch: console.error, throw error
Throw(s, message) == [s EXCEPT !.pc = "failed", !.error = message]

\* from `if (TWITTER_USERNAME && TWITTER_PASSWORD)` on: the head of the
\* while loop up to the call of scraper.login, or the final throw
TryCredentials(s) ==
  IF env.credentials /\ s.loginRetries < MAX_LOGIN_RETRIES
  THEN [Attempt(s, "credentials") EXCEPT
          !.pc = "login",
          !.logins = IF s.logins < MaxLogins THEN s.logins + 1 ELSE s.logins]
  ELSE Throw(s, "No valid Twitter authentication method succeeded")

\* from `const savedCookies = await this.loadCookies()` on: loadCookies
\* returns null when the file is absent or cannot be read or parsed
TrySavedCookies(s) ==
  IF env.cookiesFile \in {"array", "notArray"}
  THEN [Attempt(s, "saved") EXCEPT !.pc = "savedSetCookies"]
  ELSE TryCredentials(s)

\* catch (loginError): loginRetries++, throw after the last attempt, else
\* wait 5000 * loginRetries ms
CatchLoginError(s) ==
  LET r == [FailedAttempt(s) EXCEPT !.loginRetries = s.loginRetries + 1]
  IN IF r.loginRetries = MAX_LOGIN_RETRIES
     THEN Throw(r, "Failed to login after 3 attempts")
     ELSE [r EXCEPT !.pc = "retryDelay", !.wait = RETRY_DELAY_MS * r.loginRetries]

\* what initialize leaves alone, the cookie file apart
scraperFrame ==
  UNCHANGED <<orchVars, cacheVars, fetchVars, analyzeVars, scoreVars, feedVars, shutdownVars,
              clientVars>>

sessionFrame == scraperFrame /\ UNCHANGED env

\* initialize() up to its first await
initialize ==
  /\ session.pc = "idle"
  /\ session' =
       IF env.TWITTER_COOKIES = "unset" THEN TrySavedCookies(session)
       ELSE IF env.TWITTER_COOKIES = "array"
       THEN [Attempt(session, "blob") EXCEPT !.pc = "blobSetCookies"]
       \* JSON.parse throws, or the value is no array: caught by the inner catch
       ELSE TrySavedCookies(Reject(Attempt(session, "blob"), "blob"))
  /\ sessionFrame

\* await this.setCookiesFromArray(...) resolves; a value that is no array
\* has no map and cannot get here
SetCookiesReturns ==
  /\ \/ session.pc = "blobSetCookies"
     \/ session.pc = "savedSetCookies" /\ env.cookiesFile = "array"
  /\ session' = [session EXCEPT !.pc = IF session.pc = "blobSetCookies"
                                        THEN "blobProbe" ELSE "savedProbe"]
  /\ sessionFrame

\* setCookiesFromArray throws: inside the inner try for TWITTER_COOKIES,
\* outside any inner try for the saved cookies
SetCookiesThrows ==
  /\ session.pc \in {"blobSetCookies", "savedSetCookies"}
  /\ session' = IF session.pc = "blobSetCookies"
                THEN TrySavedCookies(Reject(session, "blob"))
                ELSE Throw(Reject(session, "saved"), "setCookies failed")
  /\ sessionFrame

\* a probe of the cookie blob whose answer is not looked at
ProbeReturnsIgnored(loggedIn) ==
  /\ session.pc \in {"blobProbe", "savedProbe", "loginProbe"}
  /\ session' =
       CASE session.pc = "blobProbe" -> TrySavedCookies(session)
         [] session.pc = "savedProbe" ->
              IF loggedIn THEN Return(session, "saved")
              ELSE TryCredentials(Reject(session, "saved"))
         [] session.pc = "loginProbe" ->
              IF loggedIn THEN [session EXCEPT !.pc = "saveCookies", !.confirmed = TRUE]
              ELSE TryCredentials(FailedAttempt(session))
  /\ sessionFrame

\* await this.scraper.isLoggedIn() resolves with loggedIn
ProbeReturns(loggedIn) ==
  /\ session.pc \in {"blobProbe", "savedProbe", "loginProbe"}
  /\ session' =
       CASE session.pc = "blobProbe" ->
              IF loggedIn THEN Return(session, "blob")
              ELSE TrySavedCookies(Reject(session, "blob"))
         [] session.pc = "savedProbe" ->
              IF loggedIn THEN Return(session, "saved")
              ELSE TryCredentials(Reject(session, "saved"))
         [] session.pc = "loginProbe" ->
              IF loggedIn THEN [session EXCEPT !.pc = "saveCookies", !.confirmed = TRUE]
              \* no else branch and no increment: the loop runs again
              ELSE TryCredentials(FailedAttempt(session))
  /\ sessionFrame

\* await this.scraper.isLoggedIn() rejects
ProbeThrows ==
  /\ session.pc \in {"blobProbe", "savedProbe", "loginProbe"}
  /\ session' =
       CASE session.pc = "blobProbe" -> TrySavedCookies(Reject(session, "blob"))
         [] session.pc = "savedProbe" -> Throw(Reject(session, "saved"), "isLoggedIn failed")
         [] session.pc = "loginProbe" -> CatchLoginError(session)
  /\ sessionFrame

\* await this.scraper.login(...) resolves
LoginReturns ==
  /\ session.pc = "login"
  /\ session' = [session EXCEPT !.pc = "loginProbe"]
  /\ sessionFrame

\* await this.scraper.login(...) rejects
LoginThrows ==
  /\ session.pc = "login"
  /\ session' = CatchLoginError(session)
  /\ sessionFrame

\* a login path that returns without writing the cookie file
SaveCookiesSkipped ==
  /\ session.pc = "saveCookies"
  /\ session' = Return(session, "credentials")
  /\ sessionFrame

\* await this.saveCookies() resolves: fs.writeFileSync has written the
\* JSON array of scraper.getCookies() to the cookie file; return
SaveCookiesReturns ==
  /\ session.pc = "saveCookies"
  /\ env' = [env EXCEPT !.cookiesFile = "array"]
  /\ session' = Return([session EXCEPT !.saved = TRUE], "credentials")
  /\ scraperFrame

\* await this.saveCookies() rejects (it rethrows): caught as a login error
SaveCookiesThrows ==
  /\ session.pc = "saveCookies"
  /\ session' = CatchLoginError(session)
  /\ sessionFrame

\* the wait of 5000 * loginRetries ms is over
RetryDelayElapses ==
  /\ session.pc = "retryDelay"
  /\ session' = TryCredentials(session)
  /\ sessionFrame

\* the process is started again and calls initialize anew: the cookie file
\* is what the earlier run left, TWITTER_COOKIES is as before or unset
Restart ==
  /\ session.pc \in {"ready", "failed"}
  /\ session.run < MaxRuns
  /\ \E blob \in {env.TWITTER_COOKIES, "unset"} :
       env' = [env EXCEPT !.TWITTER_COOKIES = blob]
  /\ session' = [NoSession EXCEPT !.run = session.run + 1,
                                  !.savedBefore = session.saved \/ session.savedBefore]
  /\ scraperFrame

\* initialize has returned, the cookie blob was valid
SessionReady ==
  /\ env = [TWITTER_COOKIES |-> "array", cookiesFile |-> "absent", credentials |-> FALSE]
  /\ session = Return(Attempt(NoSession, "blob"), "blob")

FeedIdle == feed = NoFeed /\ cycle = NoCycle

\* an environment in which initialize needs no more than the cookie blob
SessionIdle ==
  /\ env = [TWITTER_COOKIES |-> "array", cookiesFile |-> "absent", credentials |-> FALSE]
  /\ session = NoSession

----------------------------------------------------------------------------
(* SentimentClient.shutdown and the signal handlers *)

\* process.on('SIGTERM', ...) and process.on('SIGINT', ...)
Handlers == {"SIGTERM", "SIGINT"}

\* queue: the bull queue, "open", "closing" or "closed"; redis: the ioredis
\* connection, "ready" or "end"; quits: the handlers whose QUIT is sent and
\* not yet answered; exited: process.exit was called
Connected == [queue |-> "open", redis |-> "ready", quits |-> <<>>, exited |-> FALSE]

shutdownFrame ==
  UNCHANGED <<orchVars, cacheVars, fetchVars, analyzeVars, scoreVars, sessionVars, feedVars,
              clientVars>>

\* a signal arrives and its handler calls client.shutdown(): the queue
\* object exists since the constructor, so analysisQueue.close() is called;
\* bull's close starts the closing once and hands later callers the same
\* promise
shutdown(h) ==
  /\ ~conn.exited
  /\ shutdowns[h] = "idle"
  /\ shutdowns' = [shutdowns EXCEPT ![h] = "closeQueue"]
  /\ conn' = [conn EXCEPT !.queue = IF @ = "open" THEN "closing" ELSE @]
  /\ shutdownFrame

\* the queue has closed: bull's close() (called without doNotWaitJobs)
\* resolves once the jobs this worker is processing have finished
QueueCloses ==
  /\ ~conn.exited
  /\ conn.queue = "closing"
  /\ Active = {}
  /\ conn' = [conn EXCEPT !.queue = "closed"]
  /\ UNCHANGED shutdowns
  /\ shutdownFrame

\* a shutdown that sends QUIT without waiting for the queue to close
RedisQuitAtOnce(h) ==
  /\ ~conn.exited
  /\ shutdowns[h] = "closeQueue"
  /\ IF conn.redis = "end"
     THEN /\ shutdowns' = [shutdowns EXCEPT ![h] = "raised"]
          /\ UNCHANGED conn
     ELSE /\ shutdowns' = [shutdowns EXCEPT ![h] = "quit"]
          /\ conn' = [conn EXCEPT !.quits = Append(@, h)]
  /\ shutdownFrame

\* await analysisQueue.close() is over; redis is the module's client object,
\* so redis.quit() is called: ioredis rejects a command on a connection that
\* has ended ("Connection is closed."), otherwise QUIT is sent
RedisQuit(h) ==
  /\ ~conn.exited
  /\ shutdowns[h] = "closeQueue"
  /\ conn.queue = "closed"
  /\ IF conn.redis = "end"
     THEN /\ shutdowns' = [shutdowns EXCEPT ![h] = "raised"]
          /\ UNCHANGED conn
     ELSE /\ shutdowns' = [shutdowns EXCEPT ![h] = "quit"]
          /\ conn' = [conn EXCEPT !.quits = Append(@, h)]
  /\ shutdownFrame

\* the server answers the first QUIT and closes the connection; a QUIT sent
\* behind it is either answered too or rejected when the connection ends
QuitReplies(answersAll) ==
  /\ ~conn.exited
  /\ Len(conn.quits) > 0
  /\ shutdowns' = [h \in Handlers |->
                     IF shutdowns[h] # "quit" THEN shutdowns[h]
                     ELSE IF h = conn.quits[1] \/ answersAll THEN "delay"
                     ELSE "raised"]
  /\ conn' = [conn EXCEPT !.redis = "end", !.quits = <<>>]
  /\ shutdownFrame

\* the 100 ms are over: shutdown returns and the handler calls process.exit(0)
ShutdownReturns(h) ==
  /\ ~conn.exited
  /\ shutdowns[h] = "delay"
  /\ shutdowns' = [shutdowns EXCEPT ![h] = "done"]
  /\ conn' = [conn EXCEPT !.exited = TRUE]
  /\ shutdownFrame

ShutdownIdle ==
  /\ conn = Connected
  /\ shutdowns = [h \in Handlers |-> "idle"]

----------------------------------------------------------------------------
(* TweetAnalyzer: the analysis of one tweet *)

\* TweetAnalyzer.BATCH_SIZE
BATCH_SIZE == 10
\* results.filter(tweet => tweet.analysis.score > 0.3), in hundredths
FILTER_SCORE == 30

Timeline(n) == [k \in 1..n |-> "t" \o ToString(k)]

\* the ids of the tweets of the model
TweetIds == {Timeline(BATCH_SIZE + 1)[k] : k \in 1..(BATCH_SIZE + 1)}

\* the sentiments the system prompt of analyzeTweet asks for
Sentiments == {"positive", "negative", "neutral"}

\* what the oracle can answer for a tweet, as JSON.parse(content) returns
\* it: sentiment and score (hundredths).  The first two answers follow the
\* prompt; the third is well-formed JSON with another sentiment and a score
\* outside 0..1, the fourth has no score at all
OracleAnswers ==
  { [sentiment |-> "positive", score |-> 80],
    [sentiment |-> "neutral", score |-> 30],
    [sentiment |-> "bullish", score |-> 150],
    [sentiment |-> "negative", score |-> Undefined] }

\* the tweet with a given id: t1 is an original tweet with a link, a
\* photo and some engagement; t2 is a sensitive retweet made of hashtags
\* and mentions that nobody reacted to, the tweet with the lowest
\* credibility score; t3 is a much shared thread with a link, a poll, a
\* photo and a video; the others are plain
TweetOf(id) ==
  IF id = "t1"
  THEN [PlainTweet EXCEPT !.likes = 99, !.retweets = 9, !.views = 1000,
                          !.text = Words(20), !.urls = 1, !.photos = 1]
  ELSE IF id = "t2"
  THEN [PlainTweet EXCEPT !.hashtags = 5, !.mentions = 3, !.sensitiveContent = TRUE,
                          !.isRetweet = TRUE]
  ELSE IF id = "t3"
  THEN [PlainTweet EXCEPT !.likes = Pow10(5) - 1, !.retweets = Pow10(5) - 1,
                          !.replies = Pow10(4) - 1, !.bookmarkCount = Pow10(4) - 1,
                          !.views = 1000, !.text = Words(60), !.urls = 1,
                          !.poll = TRUE, !.isQuoted = TRUE, !.isSelfThread = TRUE,
                          !.thread = 4, !.isPin = TRUE, !.isReply = TRUE,
                          !.photos = 1, !.videos = 1]
  ELSE PlainTweet

\* a score as JSON.stringify writes it in this model: in hundredths
Hundredths(x) == (x * 100) \div Unit

\* the analysis analyzeTweet builds: {...analysis, credibilityScore}
analyzeTweet(id, answer) ==
  [sentiment |-> answer.sentiment, score |-> answer.score,
   credibilityScore |-> Hundredths(calculateCredibilityScore(TweetOf(id)))]

Analyses == {analyzeTweet(id, o) : id \in TweetIds, o \in OracleAnswers}

\* JSON.parse(cached) of getCachedAnalysis
ParseAnalysis(text) == CHOOSE a \in Analyses : StringifyAnalysis(a) = text

\* const cacheKey = `tweet_analysis:${tweet.id}`
analysisKey(id) == "tweet_analysis:" \o id

----------------------------------------------------------------------------
(* The cache-aside operations of TweetScraper and TweetAnalyzer *)

\* call slots
MaxCalls == 2
\* the clock advances by TickSeconds up to MaxTime
TickSeconds == 300
MaxTime == 900

\* TweetScraper.CACHE_EXPIRY
CACHE_EXPIRY == 600
\* TweetAnalyzer.CACHE_EXPIRY
ANALYSIS_CACHE_EXPIRY == 3600
\* searchTweets(query, count, searchMode = 1)
DefaultSearchMode == 1

Calls == 1..MaxCalls

\* the parameter tuples calls are made with: op, a string argument and a count
Params ==
  { [op |-> "getProfile", arg |-> "NASA", count |-> 0],
    [op |-> "getTweets", arg |-> "NASA", count |-> 10],
    [op |-> "getTweetsAndReplies", arg |-> "NASA", count |-> 0],
    [op |-> "searchTweets", arg |-> "presale crypto", count |-> 3],
    [op |-> "getTrends", arg |-> "", count |-> 0],
    [op |-> "getFollowerCount", arg |-> "u42", count |-> 0],
    [op |-> "getCachedAnalysis", arg |-> "t1", count |-> 0] }

\* the cache key of the earlier searchTweets, which had no search mode
cacheKeyNoMode(p) ==
  CASE p.op = "getProfile" -> "profile:" \o p.arg
    [] p.op = "getTweets" -> "tweets:" \o p.arg \o ":" \o ToString(p.count)
    [] p.op = "getTweetsAndReplies" -> "tweets_replies:" \o p.arg
    [] p.op = "searchTweets" -> "search:" \o p.arg \o ":" \o ToString(p.count)
    [] p.op = "getTrends" -> "trends"
    [] p.op = "getFollowerCount" -> "follower_count:" \o p.arg
    [] p.op = "getCachedAnalysis" -> analysisKey(p.arg)

\* const cacheKey = `...` of each operation
cacheKey(p) ==
  CASE p.op = "getProfile" -> "profile:" \o p.arg
    [] p.op = "getTweets" -> "tweets:" \o p.arg \o ":" \o ToString(p.count)
    [] p.op = "getTweetsAndReplies" -> "tweets_replies:" \o p.arg
    [] p.op = "searchTweets" ->
         "search:" \o p.arg \o ":" \o ToString(p.count) \o ":" \o ToString(DefaultSearchMode)
    [] p.op = "getTrends" -> "trends"
    [] p.op = "getFollowerCount" -> "follower_count:" \o p.arg
    [] p.op = "getCachedAnalysis" -> analysisKey(p.arg)

\* the TTL each operation stores with
expiry(p) == IF p.op = "getCachedAnalysis" THEN ANALYSIS_CACHE_EXPIRY ELSE CACHE_EXPIRY

\* what the content source (the oracle, for an analysis) can answer
LiveResults(p) ==
  CASE p.op = "getProfile" ->
         { [username |-> p.arg, followersCount |-> 5],
           [username |-> p.arg, followersCount |-> 7] }
    [] p.op \in {"getTweets", "getTweetsAndReplies", "searchTweets"} ->
         { <<>>, <<"t1", "t2", "t3">>, <<"t2", "t3", "t4">> }
    [] p.op = "getTrends" -> { <<>>, <<"sol", "presale">> }
    [] p.op = "getFollowerCount" -> { 0, 5 }
    [] p.op = "getCachedAnalysis" -> {analyzeTweet(p.arg, o) : o \in OracleAnswers}

\* the string an operation stores for a value
Stringify(p, v) ==
  CASE p.op = "getProfile" -> StringifyProfile(v)
    [] p.op \in {"getTweets", "getTweetsAndReplies", "searchTweets", "getTrends"} ->
         StringifyList(v)
    [] p.op = "getFollowerCount" -> ToString(v)
    [] p.op = "getCachedAnalysis" -> StringifyAnalysis(v)

\* JSON.parse / parseInt of a stored string
Parse(p, text) == CHOOSE v \in LiveResults(p) : Stringify(p, v) = text

\* the TTL the spec gives each kind of entry: the window in which a stored
\* result must be served from the cache
Window(p) == IF p.op = "getCachedAnalysis" THEN 3600 ELSE 600

\* ret: what the call returns (for a call that threw: what it had collected);
\* fresh: when the call started, a call with the same parameters had stored
\* seenText less than Window seconds before; liveFailed: the live fetch of
\* the call failed
NoCall ==
  [pc |-> "idle", live |-> 0, ret |-> "", fresh |-> FALSE, seenText |-> "",
   liveFailed |-> FALSE]

NoStore == [has |-> FALSE, text |-> "", at |-> 0]

\* a call starts: it reads the cache and returns the parsed entry on a hit
StartCall(c, p) ==
  /\ calls[c].pc \in {"idle", "done", "failed"}
  /\ LET cached == redisGet(cacheKey(p))
         base == [NoCall EXCEPT !.fresh = stored[p].has /\ now < stored[p].at + Window(p),
                                !.seenText = stored[p].text]
     IN calls' = [calls EXCEPT ![c] =
                    IF IsHit(cached)
                    THEN [base EXCEPT !.pc = "done", !.ret = Parse(p, cached)]
                    ELSE [base EXCEPT !.pc = "fetch"]]
  /\ UNCHANGED <<serviceVars, orchVars, cacheVars, subject, stored, analyzeVars>>

\* the live fetch (the oracle call) answers
LiveReturns(c, v) ==
  /\ calls[c].pc = "fetch"
  /\ v \in LiveResults(subject)
  /\ calls' = [calls EXCEPT ![c].pc = "setex", ![c].live = @ + 1,
                            ![c].ret = v]
  /\ UNCHANGED <<serviceVars, orchVars, cacheVars, subject, stored, analyzeVars>>

ListOps == {"getTweets", "getTweetsAndReplies", "searchTweets"}

\* what a call has collected when its live fetch fails: the operations that
\* drain a paginated sequence have pushed the items that came before the
\* failure, the others have nothing
Partials(p) ==
  IF p.op \in ListOps
  THEN {<<>>} \cup {SubSeq(v, 1, 1) : v \in {w \in LiveResults(p) : Len(w) > 0}}
  ELSE {""}

\* a failing live fetch whose half-collected result is cached all the same
LiveFailsStoresPartial(c, partial) ==
  /\ calls[c].pc = "fetch"
  /\ partial \in Partials(subject)
  /\ calls' = [calls EXCEPT ![c].live = @ + 1,
                            ![c].liveFailed = TRUE,
                            ![c].pc = IF subject.op \in ListOps THEN "setex"
                                      ELSE IF subject.op = "getFollowerCount"
                                      THEN "done" ELSE "failed",
                            ![c].ret = IF subject.op = "getFollowerCount"
                                       THEN 0 ELSE partial]
  /\ UNCHANGED <<serviceVars, orchVars, cacheVars, subject, stored, analyzeVars>>

\* a failing follower lookup whose 0 is cached
LiveFailsStoresZero(c, partial) ==
  /\ calls[c].pc = "fetch"
  /\ partial \in Partials(subject)
  /\ calls' = [calls EXCEPT ![c].live = @ + 1,
                            ![c].liveFailed = TRUE,
                            ![c].pc = IF subject.op = "getFollowerCount"
                                      THEN "setex" ELSE "failed",
                            ![c].ret = IF subject.op = "getFollowerCount"
                                       THEN 0 ELSE partial]
  /\ UNCHANGED <<serviceVars, orchVars, cacheVars, subject, stored, analyzeVars>>

\* the live fetch fails: getFollowerCount catches the error and returns 0,
\* the others throw with what they had pushed so far in their local array
LiveFails(c, partial) ==
  /\ calls[c].pc = "fetch"
  /\ partial \in Partials(subject)
  /\ calls' = [calls EXCEPT ![c].live = @ + 1,
                            ![c].liveFailed = TRUE,
                            ![c].pc = IF subject.op = "getFollowerCount"
                                      THEN "done" ELSE "failed",
                            ![c].ret = IF subject.op = "getFollowerCount"
                                       THEN 0 ELSE partial]
  /\ UNCHANGED <<serviceVars, orchVars, cacheVars, subject, stored, analyzeVars>>

\* await redis.setex(cacheKey, CACHE_EXPIRY, JSON.stringify(...)); return
StoreResult(c) ==
  /\ calls[c].pc = "setex"
  /\ cache' = redisSetex(cacheKey(subject), expiry(subject), Stringify(subject, calls[c].ret))
  /\ stored' = [stored EXCEPT ![subject] =
                  [has |-> TRUE, text |-> Stringify(subject, calls[c].ret), at |-> now]]
  /\ calls' = [calls EXCEPT ![c].pc = "done"]
  /\ UNCHANGED <<serviceVars, orchVars, now, subject, analyzeVars>>

Tick ==
  /\ now + TickSeconds <= MaxTime
  /\ now' = now + TickSeconds
  /\ UNCHANGED <<serviceVars, orchVars, cache, fetchVars, analyzeVars>>

EmptyCache == [k \in {} |-> [val |-> "", exp |-> 0]]

CacheInit ==
  /\ now = 0
  /\ cache = EmptyCache

FetchInit ==
  /\ subject \in Params
  /\ calls = [c \in Calls |-> NoCall]
  /\ stored = [p \in Params |-> NoStore]

OrchIdle ==
  /\ variant = "chain"
  /\ concurrency = 1
  /\ phase = "constructed"
  /\ isRunning = FALSE
  /\ job = [j \in Slots |-> NoJob]
  /\ pc = [j \in Slots |-> "none"]
  /\ threw = [j \in Slots |-> FALSE]
  /\ lastAttempt = NoAttempt
  /\ failedPending = FALSE

AnalyzeIdle ==
  /\ tweets = <<>>
  /\ apc = "idle"
  /\ i = 0
  /\ items = <<>>
  /\ results = <<>>
  /\ output = <<>>
  /\ oracleCalls = [id \in {} |-> 0]

\* no call of a cache-aside operation is made
FetchIdle ==
  /\ subject = CHOOSE p \in Params : p.op = "getProfile"
  /\ calls = [c \in Calls |-> NoCall]
  /\ stored = [p \in Params |-> NoStore]

ServiceIdle == ScoreIdle /\ SessionIdle /\ FeedIdle /\ ShutdownIdle /\ ClientIdle

InitFetch == OrchIdle /\ CacheInit /\ FetchInit /\ AnalyzeIdle /\ ServiceIdle

NextFetch ==
  \/ \E c \in Calls : StartCall(c, subject)
  \/ \E c \in Calls : \E v \in LiveResults(subject) : LiveReturns(c, v)
  \/ \E c \in Calls : \E partial \in Partials(subject) : LiveFails(c, partial)
  \/ \E c \in Calls : StoreResult(c)
  \/ Tick

SpecFetch == InitFetch /\ [][NextFetch]_vars

\* the clock of a long-running service: it also advances by the lifetime of
\* an analysis entry, up to MaxLateTime
MaxLateTime == 4500

TickHour ==
  /\ now + ANALYSIS_CACHE_EXPIRY <= MaxLateTime
  /\ now' = now + ANALYSIS_CACHE_EXPIRY
  /\ UNCHANGED <<serviceVars, orchVars, cache, fetchVars, analyzeVars>>

NextExpiry == NextFetch \/ TickHour

SpecExpiry == InitFetch /\ [][NextExpiry]_vars

----------------------------------------------------------------------------
(* The credibility score over the tweets of ScoredTweets *)

InitScore == OrchIdle /\ CacheInit /\ FetchIdle /\ AnalyzeIdle /\ ServiceIdle

NextScore ==
  /\ scored.pc = "idle"
  /\ \E tweet \in ScoredTweets \cup {ExampleTweet} : Score(tweet)

SpecScore == InitScore /\ [][NextScore]_vars

----------------------------------------------------------------------------
(* TweetScraper.initialize in every environment *)

InitSession ==
  /\ OrchIdle /\ CacheInit /\ FetchIdle /\ AnalyzeIdle /\ ScoreIdle /\ FeedIdle /\ ShutdownIdle /\ ClientIdle
  /\ env \in Environments
  /\ session = NoSession

NextSession ==
  \/ initialize
  \/ SetCookiesReturns
  \/ SetCookiesThrows
  \/ \E loggedIn \in BOOLEAN : ProbeReturns(loggedIn)
  \/ ProbeThrows
  \/ LoginReturns
  \/ LoginThrows
  \/ SaveCookiesReturns
  \/ SaveCookiesThrows
  \/ RetryDelayElapses

\* initialize, run after run
NextRuns ==
  \/ NextSession
  \/ Restart

SpecSession == InitSession /\ [][NextRuns]_vars

----------------------------------------------------------------------------
(* TweetAnalyzer.analyzeTweets *)

NoAnalysis == [sentiment |-> "", score |-> 0, credibilityScore |-> 0]

\* the positions of the batch tweets.slice(i, i + BATCH_SIZE)
Batch(from) == {k \in 1..Len(tweets) : from < k /\ k <= from + BATCH_SIZE}

\* getCachedAnalysis up to the answer of redis.get: a hit returns the parsed
\* entry, a miss sends the request to the oracle
LookupItem(id) ==
  LET cached == redisGet(analysisKey(id))
  IN IF IsHit(cached)
     THEN [pc |-> "done", analysis |-> ParseAnalysis(cached)]
     ELSE [pc |-> "oracle", analysis |-> NoAnalysis]

\* batch.map(tweet => this.getCachedAnalysis(tweet)): the GETs of a batch are
\* sent in one synchronous pass and answered in order, before any item of
\* the batch can send its SETEX
StartBatch(from) ==
  /\ items' = [k \in DOMAIN items |->
                IF k \in Batch(from) THEN LookupItem(tweets[k]) ELSE items[k]]
  /\ oracleCalls' = [id \in DOMAIN oracleCalls |->
                      oracleCalls[id]
                        + Cardinality({k \in Batch(from) :
                             tweets[k] = id /\ LookupItem(id).pc = "oracle"})]

\* the analyzed tweets of a batch, in the order of the batch
RECURSIVE BatchResults(_, _)
BatchResults(from, upto) ==
  IF upto <= from THEN <<>>
  ELSE Append(BatchResults(from, upto - 1),
              [id |-> tweets[upto], analysis |-> items[upto].analysis])

LastOfBatch(from) ==
  IF from + BATCH_SIZE < Len(tweets) THEN from + BATCH_SIZE ELSE Len(tweets)

\* a filter that also lets the score 0.3 pass
SignificantOrEqual(r) == r.analysis.score # Undefined /\ r.analysis.score >= FILTER_SCORE

\* tweet.analysis.score > 0.3; undefined > 0.3 is false
Significant(r) == r.analysis.score # Undefined /\ r.analysis.score > FILTER_SCORE

\* analyzeTweets is called: an empty input returns at once, otherwise the
\* first batch starts
analyzeTweets ==
  /\ apc = "idle"
  /\ IF Len(tweets) = 0
     THEN /\ apc' = "returned"
          /\ UNCHANGED <<items, oracleCalls>>
     ELSE /\ apc' = "await"
          /\ StartBatch(0)
  /\ UNCHANGED <<serviceVars, orchVars, cacheVars, fetchVars, tweets, i, results, output>>

\* the oracle answers well-formed JSON for item k
OracleReturns(k, answer) ==
  /\ k \in DOMAIN items
  /\ items[k].pc = "oracle"
  /\ items' = [items EXCEPT ![k] = [pc |-> "setex", analysis |-> analyzeTweet(tweets[k], answer)]]
  /\ UNCHANGED <<serviceVars, orchVars, cacheVars, fetchVars, tweets, apc, i, results, output, oracleCalls>>

\* an answer that does not parse is stored as it came
OracleFailsStoresRaw(k) ==
  /\ k \in DOMAIN items
  /\ items[k].pc = "oracle"
  /\ items' = [items EXCEPT ![k].pc = "setex"]
  /\ UNCHANGED <<serviceVars, orchVars, cacheVars, fetchVars, tweets, apc, i, results, output, oracleCalls>>

\* the oracle call rejects, or JSON.parse of its answer throws: the
\* getCachedAnalysis promise of item k rejects
OracleFails(k) ==
  /\ k \in DOMAIN items
  /\ items[k].pc = "oracle"
  /\ items' = [items EXCEPT ![k].pc = "failed"]
  /\ UNCHANGED <<serviceVars, orchVars, cacheVars, fetchVars, tweets, apc, i, results, output, oracleCalls>>

\* await redis.setex(cacheKey, CACHE_EXPIRY, JSON.stringify(analyzed.analysis))
StoreAnalysis(k) ==
  /\ k \in DOMAIN items
  /\ items[k].pc = "setex"
  /\ cache' = redisSetex(analysisKey(tweets[k]), ANALYSIS_CACHE_EXPIRY,
                         StringifyAnalysis(items[k].analysis))
  /\ items' = [items EXCEPT ![k].pc = "done"]
  /\ UNCHANGED <<serviceVars, orchVars, now, fetchVars, tweets, apc, i, results, output, oracleCalls>>

\* a loop that goes on as soon as one promise of the batch has resolved
BatchResolvesEarly ==
  /\ apc = "await"
  /\ \E k \in Batch(i) : items[k].pc = "done"
  /\ results' = results \o BatchResults(i, LastOfBatch(i))
  /\ IF i + BATCH_SIZE < Len(tweets)
     THEN /\ apc' = "delay"
          /\ UNCHANGED <<i, output>>
     ELSE /\ apc' = "returned"
          /\ i' = i + BATCH_SIZE
          /\ output' = SelectSeq(results', Significant)
  /\ UNCHANGED <<serviceVars, orchVars, cacheVars, fetchVars, tweets, items, oracleCalls>>

\* a loop that takes its batch out of the array it was given (splice for
\* slice)
BatchResolvesSplices ==
  /\ apc = "await"
  /\ \A k \in Batch(i) : items[k].pc = "done"
  /\ results' = results \o BatchResults(i, LastOfBatch(i))
  /\ tweets' = SubSeq(tweets, LastOfBatch(i) + 1, Len(tweets))
  /\ IF i + BATCH_SIZE < Len(tweets)
     THEN /\ apc' = "delay"
          /\ UNCHANGED <<i, output>>
     ELSE /\ apc' = "returned"
          /\ i' = i + BATCH_SIZE
          /\ output' = SelectSeq(results', Significant)
  /\ UNCHANGED <<serviceVars, orchVars, cacheVars, fetchVars, items, oracleCalls>>

\* Promise.all(batchPromises) resolves: results.push(...batchResults); then
\* either the delay between batches starts or the loop ends and the
\* filtered results are returned
BatchResolves ==
  /\ apc = "await"
  /\ \A k \in Batch(i) : items[k].pc = "done"
  /\ results' = results \o BatchResults(i, LastOfBatch(i))
  /\ IF i + BATCH_SIZE < Len(tweets)
     THEN /\ apc' = "delay"
          /\ UNCHANGED <<i, output>>
     ELSE /\ apc' = "returned"
          /\ i' = i + BATCH_SIZE
          /\ output' = SelectSeq(results', Significant)
  /\ UNCHANGED <<serviceVars, orchVars, cacheVars, fetchVars, tweets, items, oracleCalls>>

\* Promise.all(batchPromises) rejects with the first rejection: analyzeTweets
\* throws, while the other items of the batch stay in flight
BatchRejects ==
  /\ apc = "await"
  /\ \E k \in Batch(i) : items[k].pc = "failed"
  /\ apc' = "thrown"
  /\ UNCHANGED <<serviceVars, orchVars, cacheVars, fetchVars, tweets, i, items, results, output, oracleCalls>>

\* the 1000 ms between two batches are over: i += BATCH_SIZE, next batch
DelayElapses ==
  /\ apc = "delay"
  /\ i' = i + BATCH_SIZE
  /\ apc' = "await"
  /\ StartBatch(i + BATCH_SIZE)
  /\ UNCHANGED <<serviceVars, orchVars, cacheVars, fetchVars, tweets, results, output>>

\* the working sets of the model, each with the ids whose analysis an
\* earlier cycle left in the cache: one tweet twice (returned by two keyword
\* searches), two tweets, and a set of more than one batch
Scenarios ==
  { [tweets |-> <<>>, warm |-> {}],
    [tweets |-> <<"t1", "t1">>, warm |-> {}],
    [tweets |-> <<"t1", "t2">>, warm |-> {}],
    [tweets |-> <<"t1", "t2", "t1">>, warm |-> {"t2"}],
    [tweets |-> Timeline(BATCH_SIZE + 1), warm |-> TweetIds \ {"t1", "t2", "t11"}] }

\* the cache after an earlier cycle has stored the analyses of `warm`
WarmCache(warm) ==
  [key \in {analysisKey(id) : id \in warm} |->
     [val |-> StringifyAnalysis(analyzeTweet(CHOOSE id \in warm : analysisKey(id) = key,
                                            CHOOSE o \in OracleAnswers : o.sentiment = "positive")),
      exp |-> ANALYSIS_CACHE_EXPIRY]]

InitAnalyze ==
  /\ OrchIdle
  /\ \E sc \in Scenarios :
       /\ tweets = sc.tweets
       /\ cache = WarmCache(sc.warm)
       /\ items = [k \in 1..Len(sc.tweets) |-> [pc |-> "pending", analysis |-> NoAnalysis]]
  /\ now = 0
  /\ subject = CHOOSE q \in Params : q.op = "getCachedAnalysis"
  /\ calls = [c \in Calls |-> NoCall]
  /\ stored = [p \in Params |-> NoStore]
  /\ apc = "idle"
  /\ i = 0
  /\ results = <<>>
  /\ output = <<>>
  /\ oracleCalls = [id \in TweetIds |-> 0]
  /\ ServiceIdle

NextAnalyze ==
  \/ analyzeTweets
  \/ \E k \in DOMAIN items : \E answer \in OracleAnswers : OracleReturns(k, answer)
  \/ \E k \in DOMAIN items : OracleFails(k)
  \/ \E k \in DOMAIN items : StoreAnalysis(k)
  \/ BatchResolves
  \/ BatchRejects
  \/ DelayElapses

SpecAnalyze == InitAnalyze /\ [][NextAnalyze]_vars

----------------------------------------------------------------------------
(* SentimentClient.runMainLoop, step by step *)

\* runMainLoop calls are followed up to MaxCycles
MaxCycles == 2

\* what the searches (chain variant) or the timelines (repeat variant) of
\* one cycle return, flattened into allTweets
FetchedLists == {<<>>, <<"t1", "t2">>, <<"t3", "t1">>, <<"t3", "t3">>}

\* the thresholds of the filter of runMainLoop, in hundredths
significanceThresholds ==
  IF variant = "chain"
  THEN [score |-> 50, credibilityScore |-> 32]
  ELSE [score |-> 70, credibilityScore |-> 60]

\* a filter that tests the sentiment score only
isSignificantByScore(r) ==
  /\ r.analysis.score # Undefined
  /\ r.analysis.score > significanceThresholds.score

\* tweet.analysis.score > 0.5 && tweet.analysis.credibilityScore > 0.32
\* (0.7 and 0.6 in the repeat variant)
isSignificant(r) ==
  /\ r.analysis.score # Undefined
  /\ r.analysis.score > significanceThresholds.score
  /\ r.analysis.credibilityScore > significanceThresholds.credibilityScore

Ids(rs) == [k \in DOMAIN rs |-> rs[k].id]

\* significantTweets.reduce((acc, t) => acc + t.analysis.score, 0), in
\* hundredths
RECURSIVE SumScore(_)
SumScore(rs) ==
  IF rs = <<>> THEN 0 ELSE Head(rs).analysis.score + SumScore(Tail(rs))

\* significantTweets.reduce((acc, t) => acc + t.analysis.credibilityScore, 0)
RECURSIVE SumCredibility(_)
SumCredibility(rs) ==
  IF rs = <<>> THEN 0 ELSE Head(rs).analysis.credibilityScore + SumCredibility(Tail(rs))

\* statistics: { averageScore: ... / significantTweets.length,
\*               averageCredibility: ... / significantTweets.length, ... }
statistics(significantTweets) ==
  [averageScore |-> Quotient(SumScore(significantTweets), Len(significantTweets)),
   averageCredibility |->
     Quotient(SumCredibility(significantTweets), Len(significantTweets))]

cycleFrame ==
  UNCHANGED <<orchVars, fetchVars, analyzeVars, scoreVars, sessionVars, shutdownVars, clientVars>>

\* runMainLoop is called: const allTweets = []; the fetches start
runMainLoop ==
  /\ cycle.pc \in {"idle", "returned", "thrown"}
  /\ cycle.n < MaxCycles
  /\ cycle' = [NoCycle EXCEPT !.pc = "fetch", !.n = cycle.n + 1]
  /\ cycleFrame
  /\ UNCHANGED <<cacheVars, feed>>

\* every search (every getTweets) has returned: allTweets is filled and
\* analyzeTweets(allTweets) is called
FetchesReturn(fetched) ==
  /\ cycle.pc = "fetch"
  /\ cycle' = [cycle EXCEPT !.pc = "analyze", !.allTweets = fetched]
  /\ cycleFrame
  /\ UNCHANGED <<cacheVars, feed>>

\* a fetch, analyzeTweets or the last step throws: catch (error) rethrows
CycleThrows ==
  /\ cycle.pc \in {"fetch", "analyze", "publish"}
  /\ cycle' = [cycle EXCEPT !.pc = "thrown"]
  /\ cycleFrame
  /\ UNCHANGED <<cacheVars, feed>>

\* analyzeTweets returns the tweets whose score passes its filter, each
\* with its analysis (answers: position -> what the oracle, now or in an
\* earlier cycle, said about the tweet); then the filter of runMainLoop
AnalyzeReturns(answers) ==
  /\ cycle.pc = "analyze"
  /\ DOMAIN answers = DOMAIN cycle.allTweets
  /\ LET all == [k \in DOMAIN cycle.allTweets |->
                  [id |-> cycle.allTweets[k],
                   analysis |-> analyzeTweet(cycle.allTweets[k], answers[k])]]
         analyzedTweets == SelectSeq(all, Significant)
     IN cycle' = [cycle EXCEPT !.pc = "publish",
                               !.analyzedTweets = analyzedTweets,
                               !.significantTweets = SelectSeq(analyzedTweets, isSignificant)]
  /\ cycleFrame
  /\ UNCHANGED <<cacheVars, feed>>

\* await redis.publish(...) or await redis.setex('latest_analysis', ...)
\* returns, and runMainLoop with it
LastStepReturns ==
  /\ cycle.pc = "publish"
  /\ LastStep(Ids(cycle.significantTweets))
  /\ cycle' = [cycle EXCEPT
                 !.pc = "returned",
                 !.statistics = IF variant = "chain"
                                THEN statistics(cycle.significantTweets)
                                ELSE NoStatistics,
                 !.rewritten = /\ variant = "repeat"
                               /\ redisGet("latest_analysis")
                                    = StringifySnapshot(Ids(cycle.significantTweets))]
  /\ now' = now
  /\ cycleFrame

----------------------------------------------------------------------------

OrchInit ==
  /\ variant \in {"chain", "repeat"}
  /\ concurrency \in 1..MaxConcurrency
  /\ phase = "constructed"
  /\ isRunning = FALSE
  /\ job = [j \in Slots |-> NoJob]
  /\ pc = [j \in Slots |-> "none"]
  /\ threw = [j \in Slots |-> FALSE]
  /\ lastAttempt = NoAttempt
  /\ failedPending = FALSE

\* the queue and the processor once the scraper has its session
Init ==
  /\ OrchInit /\ CacheInit /\ FetchIdle /\ AnalyzeIdle
  /\ ScoreIdle /\ FeedIdle /\ ShutdownIdle /\ ClientIdle /\ SessionReady

Next ==
  \/ setupQueue
  \/ \E j \in Slots : Promote(j)
  \/ \E j \in Slots : Fetch(j)
  \/ \E j \in Slots : ProcessorSkip(j)
  \/ \E j \in Slots : ProcessorStart(j)
  \/ \E j \in Slots : MainLoopReturns(j)
  \/ \E j \in Slots : MainLoopThrows(j)
  \/ \E j \in Slots : AddSuccessor(j)
  \/ \E j \in Slots : SettleResolved(j)
  \/ \E j \in Slots : SettleRejected(j)

Spec == Init /\ [][Next]_vars

\* runMainLoop alone, in both variants
InitLoop ==
  /\ OrchInit /\ concurrency = 1
  /\ CacheInit /\ FetchIdle /\ AnalyzeIdle /\ ServiceIdle

NextLoop ==
  \/ runMainLoop
  \/ \E fetched \in FetchedLists : FetchesReturn(fetched)
  \/ CycleThrows
  \/ \E answers \in UNION {[1..n -> OracleAnswers] : n \in 0..2} : AnalyzeReturns(answers)
  \/ LastStepReturns
  \/ Tick

SpecLoop == InitLoop /\ [][NextLoop]_vars

\* timers fire, the worker takes waiting jobs, awaited I/O completes and the
\* queue settles every attempt
Fairness ==
  /\ WF_vars(setupQueue)
  /\ WF_vars(\E j \in Slots : Promote(j))
  /\ WF_vars(\E j \in Slots : Fetch(j))
  /\ WF_vars(\E j \in Slots : ProcessorSkip(j) \/ ProcessorStart(j))
  /\ WF_vars(\E j \in Slots : MainLoopReturns(j) \/ MainLoopThrows(j))
  /\ WF_vars(\E j \in Slots : AddSuccessor(j))
  /\ WF_vars(\E j \in Slots : SettleResolved(j) \/ SettleRejected(j))

FairSpec == Init /\ [][Next]_vars /\ Fairness

----------------------------------------------------------------------------
(* Claims about the cache-aside operations *)

\* C7: a call that starts after a call with the same parameters has stored
\* its result, and before that entry's TTL has run out, returns the stored
\* value and makes no live fetch or oracle call.
C7_ServedFromCache ==
  \A c \in Calls :
    (calls[c].pc # "idle" /\ calls[c].fresh)
      => /\ calls[c].pc = "done"
         /\ calls[c].live = 0
         /\ calls[c].ret = Parse(subject, calls[c].seenText)

\* a follower count of 0, stored as the text "0", is served from the cache
\* some time after it was stored
C7_Witness ==
  \E c \in Calls :
    /\ subject.op = "getFollowerCount"
    /\ calls[c].fresh /\ calls[c].pc = "done" /\ calls[c].live = 0
    /\ calls[c].ret = 0
    /\ now > 0

\* C17: when the live follower lookup of getFollowerCount fails on a cache
\* miss, the call returns 0 without raising and writes nothing: an entry
\* under the key is always one stored after a successful lookup.
C17_DegradedZeroNotCached ==
  subject.op = "getFollowerCount"
    => /\ \A c \in Calls :
            calls[c].liveFailed => (calls[c].pc = "done" /\ calls[c].ret = 0)
       /\ cacheKey(subject) \in DOMAIN cache
            => /\ stored[subject].has
               /\ cache[cacheKey(subject)].val = stored[subject].text

\* a follower lookup has failed and returned 0, and the key has no entry
C17_Witness ==
  /\ subject.op = "getFollowerCount"
  /\ \E c \in Calls :
       calls[c].liveFailed /\ calls[c].pc = "done" /\ calls[c].ret = 0
  /\ cacheKey(subject) \notin DOMAIN cache

\* C18: when the live fetch of getTweets, getTweetsAndReplies, searchTweets
\* or getTrends fails on a cache miss, also part-way through the sequence,
\* the call throws and writes nothing: an entry under the key is always a
\* complete result.
C18_FailedFetchNotCached ==
  subject.op \in ListOps \cup {"getTrends"}
    => /\ \A c \in Calls : calls[c].liveFailed => calls[c].pc = "failed"
       /\ cacheKey(subject) \in DOMAIN cache
            => /\ stored[subject].has
               /\ cache[cacheKey(subject)].val = stored[subject].text
               /\ \E v \in LiveResults(subject) :
                    cache[cacheKey(subject)].val = Stringify(subject, v)

\* a fetch has failed after the first item, and the key has no entry
C18_Witness ==
  /\ subject.op \in ListOps
  /\ \E c \in Calls :
       calls[c].liveFailed /\ calls[c].pc = "failed" /\ Len(calls[c].ret) = 1
  /\ cacheKey(subject) \notin DOMAIN cache

PresaleSearch == [op |-> "searchTweets", arg |-> "presale crypto", count |-> 3]

\* the search scenario with the entry expected under `key`: a call that
\* fetched 3 items made exactly one live call and leaves them under `key`
\* for 600 s; a call that started within 600 s of such a store returns the
\* stored items without a live call
SearchScenario(key) ==
  subject = PresaleSearch =>
    \A c \in Calls :
      /\ (calls[c].pc = "setex" /\ calls'[c].pc = "done" /\ Len(calls'[c].ret) = 3)
           => /\ calls'[c].live = 1
              /\ key \in DOMAIN cache'
              /\ cache'[key] = [val |-> StringifyList(calls'[c].ret), exp |-> now + 600]
      /\ (calls'[c].pc # "idle" /\ calls'[c].fresh)
           => /\ calls'[c].pc = "done"
              /\ calls'[c].live = 0
              /\ calls'[c].ret = Parse(subject, calls'[c].seenText)

\* C8 as stated: searchTweets("presale crypto", 3) on an empty cache makes
\* one live search call and stores the 3 items under the key
\* search:presale crypto:3; a second call within 600 s returns them with no
\* live call.
C8_KeyWithoutMode == [][SearchScenario("search:presale crypto:3")]_vars

\* C8 amended: the same, with the items stored under the key
\* search:presale crypto:3:1, which ends in the search mode (1 by default).
C8_KeyWithMode == [][SearchScenario("search:presale crypto:3:1")]_vars

\* one call has fetched 3 items and stored them, a second one has returned
\* the same items from the cache
C8_Witness ==
  /\ subject = PresaleSearch
  /\ "search:presale crypto:3:1" \in DOMAIN cache
  /\ \E c, d \in Calls :
       /\ calls[c].pc = "done" /\ calls[c].live = 1 /\ Len(calls[c].ret) = 3
       /\ calls[d].pc = "done" /\ calls[d].live = 0 /\ calls[d].fresh
       /\ calls[d].ret = calls[c].ret
       /\ now > 0

----------------------------------------------------------------------------
(* SentimentClient.initialize: the scraper's session, then the queue *)

\* client.initialize().catch(...): console.error, process.exit(1)
InitializeFails ==
  /\ session.pc = "failed"
  /\ phase = "constructed"
  /\ phase' = "exited"
  /\ UNCHANGED <<cacheVars, fetchVars, analyzeVars, serviceVars>>
  /\ UNCHANGED <<variant, concurrency, isRunning, job, pc, threw, lastAttempt, failedPending>>

\* the environments of a start: those without credentials, and the one
\* with credentials only
StartEnvironments ==
  {e \in Environments :
     e.credentials => (e.TWITTER_COOKIES = "unset" /\ e.cookiesFile = "absent")}

\* the processor is registered as in the source: one job at a time
InitStart ==
  /\ OrchInit /\ concurrency = 1
  /\ CacheInit /\ FetchIdle /\ AnalyzeIdle /\ ScoreIdle /\ FeedIdle /\ ShutdownIdle /\ ClientIdle
  /\ env \in StartEnvironments
  /\ session = NoSession

\* with one job at a time no invocation finds isRunning set, so
\* ProcessorSkip has no part here
NextStart ==
  \/ NextSession
  \/ InitializeFails
  \/ setupQueue
  \/ \E j \in Slots : Promote(j)
  \/ \E j \in Slots : Fetch(j)
  \/ \E j \in Slots : ProcessorStart(j)
  \/ \E j \in Slots : MainLoopReturns(j)
  \/ \E j \in Slots : MainLoopThrows(j)
  \/ \E j \in Slots : AddSuccessor(j)
  \/ \E j \in Slots : SettleResolved(j)
  \/ \E j \in Slots : SettleRejected(j)

SpecStart == InitStart /\ [][NextStart]_vars

----------------------------------------------------------------------------
(* Claims about SentimentClient.initialize *)

\* C16: if TweetScraper.initialize fails, SentimentClient.initialize fails
\* too: the processor is never registered, no job is added and runMainLoop
\* never runs.
C16_NoStartWithoutSession ==
  session.pc = "failed"
    => /\ phase \in {"constructed", "exited"}
       /\ \A j \in Slots : job[j] = NoJob /\ pc[j] = "none"
       /\ ~isRunning
       /\ lastAttempt = NoAttempt

\* the scraper failed to get a session and the process has exited
C16_Witness ==
  /\ session.pc = "failed"
  /\ phase = "exited"

----------------------------------------------------------------------------
(* Claims about TweetScraper.initialize *)

Rank(source) ==
  CASE source = "blob" -> 1 [] source = "saved" -> 2 [] source = "credentials" -> 3

C14_CookieFailureFallsThrough ==
  session.pc = "failed"
    => session.error \in {"No valid Twitter authentication method succeeded",
                          "Failed to login after 3 attempts"}

\* C15: initialize makes at most MAX_LOGIN_RETRIES credential login
\* attempts before it fails.
C15_AtMostThreeLogins == session.logins <= MAX_LOGIN_RETRIES

----------------------------------------------------------------------------
(* Claims about the credibility score *)

\* C11: for every tweet with non-negative counters and any flags, media and
\* text, calculateCredibilityScore returns a value in [0,1].
C11_CredibilityInUnit ==
  scored.pc = "scored" => (0 <= scored.credibilityScore /\ scored.credibilityScore <= Unit)

\* a tweet has been scored whose engagement sub-score is above 1 and whose
\* composite score lies strictly between 0 and 1
C11_Witness ==
  /\ scored.pc = "scored"
  /\ scored.engagementScore > Unit
  /\ 0 < scored.credibilityScore /\ scored.credibilityScore < Unit

\* C12: for every tweet with non-negative counters of any magnitude, each
\* of the four sub-scores lies in [0,1] where it is multiplied by its weight.
C12_SubScoresInUnit ==
  scored.pc = "scored"
    => /\ 0 <= scored.engagementScore /\ scored.engagementScore <= Unit
       /\ 0 <= scored.contentQualityScore /\ scored.contentQualityScore <= Unit
       /\ 0 <= scored.userBehaviorScore /\ scored.userBehaviorScore <= Unit
       /\ 0 <= scored.mediaRichnessScore /\ scored.mediaRichnessScore <= Unit

----------------------------------------------------------------------------
(* Claims about analyzeTweets *)

\* C27: for a tweet with no likes, retweets, replies and views, with
\* sensitive content and 8 hashtags in a text of 10 words, the engagement
\* score is exactly 0, and the content score carries the hashtag penalty
\* (-0.1 instead of +0.15) and the sensitivity penalty (-0.2): it is the
\* score of the same tweet without hashtags and not sensitive, less 0.45,
\* which is 0.
C27_ExampleScores ==
  ( /\ scored.pc = "scored"
    /\ scored.likes = 0 /\ scored.retweets = 0 /\ scored.replies = 0
    /\ scored.views = 0
    /\ scored.sensitiveContent
    /\ scored.hashtags = 8 /\ scored.words = 10 )
    => /\ scored.engagementScore = 0
       /\ scored.contentQualityScore
            = calculateContentQualityScore(
                [ExampleTweet EXCEPT !.hashtags = 0, !.sensitiveContent = FALSE])
              - 2500 - 2000
       /\ scored.contentQualityScore = 0

\* the tweet of the example has been scored
C27_Witness ==
  /\ scored.pc = "scored"
  /\ scored.hashtags = 8 /\ scored.words = 10
  /\ scored.sensitiveContent
  /\ scored.likes = 0 /\ scored.views = 0
  /\ scored.engagementScore = 0

\* C23: every item of a published envelope or a stored snapshot was fetched
\* in the same cycle, passed the 0.3 filter of analyzeTweets, and has a
\* score and a credibility score above the thresholds of its variant (0.5
\* and 0.32 when publishing, 0.7 and 0.6 for the snapshot).
C23_PublishedAreSignificant ==
  cycle.pc = "returned"
    => /\ IF variant = "chain"
          THEN \E timestamp \in 0..now :
                 feed.broadcast
                   = StringifyEnvelopeAt(timestamp, Ids(cycle.significantTweets))
          ELSE cache["latest_analysis"].val = StringifySnapshot(Ids(cycle.significantTweets))
       /\ \A n \in DOMAIN cycle.significantTweets :
            LET item == cycle.significantTweets[n]
            IN /\ \E k \in DOMAIN cycle.allTweets : cycle.allTweets[k] = item.id
               /\ item.analysis.score > FILTER_SCORE
               /\ IF variant = "chain"
                  THEN item.analysis.score > 50 /\ item.analysis.credibilityScore > 32
                  ELSE item.analysis.score > 70 /\ item.analysis.credibilityScore > 60

\* of two tweets the oracle scored alike, one is published and the one with
\* the low credibility score is not
C23_Witness ==
  /\ cycle.pc = "returned"
  /\ Len(cycle.analyzedTweets) = 2
  /\ Len(cycle.significantTweets) = 1
  /\ cycle.analyzedTweets[1].analysis.score = cycle.analyzedTweets[2].analysis.score

\* C24: writing the same result to the snapshot key again leaves the
\* snapshot with the content of one write; publishing writes no key.
C24_SnapshotWriteIdempotent ==
  /\ (variant = "repeat" /\ cycle.pc = "returned")
       => cache["latest_analysis"].val = StringifySnapshot(Ids(cycle.significantTweets))
  /\ variant = "chain" => "latest_analysis" \notin DOMAIN cache

\* a second cycle has written the list the first had written
C24_Witness ==
  /\ variant = "repeat"
  /\ cycle.pc = "returned"
  /\ cycle.n = 2
  /\ cycle.rewritten
  /\ Len(cycle.significantTweets) > 0

\* C29: when initialize has returned through the credential login, the
\* cookies are in the cookie file; only that path writes the file; and a
\* following initialize without TWITTER_COOKIES tries the saved cookies
\* first and calls login only after they were rejected.
C29_LoginPersistsSession ==
  /\ session.validated = "credentials"
       => session.saved /\ env.cookiesFile = "array"
  /\ session.saved
       => session.pc = "ready" /\ session.validated = "credentials" /\ session.logins > 0
  /\ (session.savedBefore /\ env.TWITTER_COOKIES = "unset" /\ session.pc # "idle")
       => /\ \E k \in DOMAIN session.tried : session.tried[k] = "saved"
          /\ session.logins > 0 => "saved" \in session.rejected
          /\ session.validated = "saved" => session.logins = 0 /\ ~session.saved

\* a run that follows a credential login starts from the saved cookies,
\* without a login call
C29_Witness ==
  /\ session.savedBefore
  /\ env.TWITTER_COOKIES = "unset"
  /\ session.pc = "ready"
  /\ session.validated = "saved"
  /\ session.logins = 0

\* C30: the wait between failed login attempts grows with their number:
\* 5 s after the first failure, 10 s after the second, and after the third
\* initialize fails without waiting.
C30_LinearBackoff ==
  /\ (session.pc = "login" /\ session.failures = 1) => session.wait = RETRY_DELAY_MS
  /\ (session.pc = "login" /\ session.failures = 2) => session.wait = 2 * RETRY_DELAY_MS
  /\ session.failures >= MAX_LOGIN_RETRIES => session.pc = "failed"

\* C9: within the analysis TTL the oracle is called at most once per tweet
\* id, also when an id occurs more than once in a batch.
C9_OneOracleCallPerId == \A id \in DOMAIN oracleCalls : oracleCalls[id] <= 1

\* C10: when the analysis of one item fails, analyzeTweets does not fail as
\* a whole, and it returns every other item whose analysis succeeded with a
\* score above the filter.
C10_FailureIsolated ==
  (\E k \in DOMAIN items : items[k].pc = "failed")
    => /\ apc # "thrown"
       /\ (\A k \in DOMAIN items : items[k].pc \in {"done", "failed"})
            => /\ apc = "returned"
               /\ \A k \in DOMAIN items :
                    (items[k].pc = "done" /\ items[k].analysis.score > FILTER_SCORE)
                      => \E n \in DOMAIN output : output[n].id = tweets[k]

\* the first position of the batch that position k belongs to, minus one
BatchStart(k) == ((k - 1) \div BATCH_SIZE) * BATCH_SIZE

\* C21: the input is cut into consecutive batches of BATCH_SIZE and the
\* batches run one after another: an item has started its lookup or its
\* oracle call only if the loop has reached its batch (which, after the
\* first batch, it does when the delay elapses) and every item of every
\* earlier batch has completed; the delay runs only while tweets remain.
C21_BatchesInSequence ==
  /\ \A k \in DOMAIN items :
       items[k].pc # "pending"
         => /\ BatchStart(k) <= i
            /\ \A m \in DOMAIN items : m <= BatchStart(k) => items[m].pc = "done"
  /\ apc = "delay"
       => /\ i + BATCH_SIZE < Len(tweets)
          /\ \A k \in DOMAIN items : k > i + BATCH_SIZE => items[k].pc = "pending"
  /\ apc = "returned" => i >= Len(tweets)

\* the second, shorter batch runs after the first has completed
C21_Witness ==
  /\ Len(tweets) = BATCH_SIZE + 1
  /\ i = BATCH_SIZE
  /\ apc = "await"
  /\ items[BATCH_SIZE + 1].pc = "oracle"

\* the items of the first k positions that pass the filter, in input order
RECURSIVE Passing(_)
Passing(k) ==
  IF k = 0 THEN <<>>
  ELSE IF items[k].analysis.score # Undefined /\ items[k].analysis.score > FILTER_SCORE
       THEN Append(Passing(k - 1), [id |-> tweets[k], analysis |-> items[k].analysis])
       ELSE Passing(k - 1)

\* C22: analyzeTweets returns exactly the input items whose analysis score
\* is above 0.3, in input order, from the cache or from the oracle alike; an
\* item with a score of 0.3 or less, or without a score, is not returned.
C22_ReturnsSignificantInOrder ==
  apc = "returned" => output = Passing(Len(tweets))

\* of three tweets the cached one is returned, the one scored 0.3 and the
\* one without a score are not
C22_Witness ==
  /\ apc = "returned"
  /\ Len(tweets) = 3
  /\ oracleCalls["t2"] = 0
  /\ items[1].analysis.score = FILTER_SCORE
  /\ items[3].analysis.score = Undefined
  /\ Len(output) = 1
  /\ output[1].id = "t2"

\* C25: every item analyzeTweets returns has a credibility score above 0
\* and at most 1, and a score above 0.
C25_ReturnedScoresPositive ==
  \A n \in DOMAIN output :
    /\ output[n].analysis.credibilityScore > 0
    /\ output[n].analysis.credibilityScore <= 100
    /\ output[n].analysis.score > 0

\* the tweet with the lowest sub-scores is returned with a fresh analysis
C25_Witness ==
  /\ apc = "returned"
  /\ oracleCalls["t2"] = 1
  /\ \E n \in DOMAIN output :
       /\ output[n].id = "t2"
       /\ output[n].analysis.credibilityScore
            = Hundredths(Times(4000, credibilityWeights.communitySignals))

\* an analysis with one of the three sentiments and a score in [0, 1]
WellFormed(a) ==
  /\ a.sentiment \in Sentiments
  /\ a.score # Undefined
  /\ 0 <= a.score
  /\ a.score <= 100

\* C26: whatever JSON the oracle returns, every analysis written to the
\* analysis cache or attached to a returned item has one of the three
\* sentiments and a score in [0, 1] (the topics and the summary of the
\* claim are not part of this model).
C26_OracleAnswerValidated ==
  /\ \A n \in DOMAIN output : WellFormed(output[n].analysis)
  /\ \A id \in TweetIds :
       IsHit(redisGet(analysisKey(id)))
         => WellFormed(ParseAnalysis(redisGet(analysisKey(id))))

----------------------------------------------------------------------------
(* shutdown while TweetScraper.initialize has not started, runs, has
   returned or has failed *)

InitShutdown ==
  /\ OrchIdle /\ CacheInit /\ FetchIdle /\ AnalyzeIdle /\ ScoreIdle /\ FeedIdle /\ ShutdownIdle /\ ClientIdle
  /\ env \in StartEnvironments
  /\ session = NoSession

NextShutdown ==
  \/ ~conn.exited /\ NextSession
  \/ \E h \in Handlers : shutdown(h)
  \/ QueueCloses
  \/ \E h \in Handlers : RedisQuit(h)
  \/ \E answersAll \in BOOLEAN : QuitReplies(answersAll)
  \/ \E h \in Handlers : ShutdownReturns(h)

SpecShutdown == InitShutdown /\ [][NextShutdown]_vars

----------------------------------------------------------------------------
(* shutdown while the queue works, one job at a time *)

InitStop == Init /\ concurrency = 1

\* with one job at a time no invocation finds isRunning set, so
\* ProcessorSkip has no part here
NextWork ==
  \/ setupQueue
  \/ \E j \in Slots : Promote(j)
  \/ \E j \in Slots : Fetch(j)
  \/ \E j \in Slots : ProcessorStart(j)
  \/ \E j \in Slots : MainLoopReturns(j)
  \/ \E j \in Slots : MainLoopThrows(j)
  \/ \E j \in Slots : AddSuccessor(j)
  \/ \E j \in Slots : SettleResolved(j)
  \/ \E j \in Slots : SettleRejected(j)

NextStop ==
  \/ ~conn.exited /\ NextWork
  \/ \E h \in Handlers : shutdown(h)
  \/ QueueCloses
  \/ \E h \in Handlers : RedisQuit(h)
  \/ \E answersAll \in BOOLEAN : QuitReplies(answersAll)
  \/ \E h \in Handlers : ShutdownReturns(h)

SpecStop == InitStop /\ [][NextStop]_vars

----------------------------------------------------------------------------
(* Claims about shutdown *)

\* C20: shutdown can be called in any state, also after an earlier shutdown
\* has closed the connections or twice at the same time from the two signal
\* handlers, and no call raises.
C20_ShutdownNeverRaises == \A h \in Handlers : shutdowns[h] # "raised"

----------------------------------------------------------------------------
(* Claims about the last step of a cycle *)

\* C19: after a successful cycle an envelope has been published on the
\* broadcast channel and the snapshot key holds that same envelope.
C19_SnapshotIsBroadcast ==
  feed.succeeded
    => /\ feed.broadcast # ""
       /\ redisGet("latest_analysis") = feed.broadcast

----------------------------------------------------------------------------
(* Claims about the processor and the queue *)

\* C1: at most one invocation of runMainLoop is in flight in every reachable
\* state, however the queue invokes the processor.
C1_SingleFlight == Cardinality(InFlight) <= 1

\* the processor has been invoked for a second job while a runMainLoop is
\* in flight, and has returned without starting another
C1_Witness ==
  \E j, k \in Slots : j # k /\ pc[j] = "main" /\ pc[k] = "skipped"

\* C2: an invocation that finds isRunning true returns without calling
\* runMainLoop, leaves isRunning true and leaves the queue's jobs as they are.
C2_TriggerDropped ==
  [][\A j \in Slots :
       (pc[j] = "called" /\ isRunning /\ pc'[j] # "called")
         => /\ pc'[j] = "skipped"
            /\ isRunning'
            /\ InFlight' = InFlight
            /\ job' = job]_vars

C2_Witness ==
  \E j \in Slots : pc[j] = "skipped" /\ isRunning /\ Cardinality(InFlight) = 1

\* C3: whenever runMainLoop throws, the processor invocation fails and the
\* queue records the attempt as failed, not as completed.
C3_ThrowFailsAttempt == lastAttempt.threw => lastAttempt.outcome = "failed"

\* C5: after a cycle that ended in failure a later runMainLoop is eventually
\* started (no shutdown).
C5_CycleAfterFailure == failedPending ~> ~failedPending

\* the last cycle failed and the queue has abandoned its job: the attempt
\* budget is used up
C5_Witness ==
  /\ failedPending
  /\ lastAttempt.threw
  /\ lastAttempt.outcome = "failed"
  /\ lastAttempt.attemptsMade = ATTEMPTS

Pending == {j \in Slots : job[j].st \in {"waiting", "delayed"}}

\* C6 as stated: in the chain variant at most one job is waiting, delayed or
\* active.
C6_AtMostOneJob == variant = "chain" => Cardinality(Outstanding) <= 1

\* C6 amended: in the chain variant at most one job is waiting or delayed;
\* beyond it there are only jobs that are still active after their finally
\* block has added the successor, so the outstanding jobs number at most one
\* more than the worker's concurrency, and at most one when no invocation is
\* between its add and its settlement.
C6_JobsBounded ==
  variant = "chain" =>
    /\ Cardinality(Pending) <= 1
    /\ Cardinality(Outstanding) <= concurrency + 1
    /\ (\A j \in Slots : pc[j] # "resolved") => Cardinality(Outstanding) <= 1

\* the finishing job is still active and its successor is already queued
C6_Witness ==
  /\ variant = "chain"
  /\ concurrency = 1
  /\ \E j, k \in Slots :
       /\ job[j].st = "active" /\ pc[j] = "resolved"
       /\ job[k].st = "delayed"
  /\ lastAttempt.outcome = "completed"

----------------------------------------------------------------------------
(* Claims about the flag and the delay of the chain *)

\* C36: isRunning is true exactly while a runMainLoop started by the
\* processor is in flight: set with the start, cleared on return and on
\* throw, and so already cleared when the chain variant adds the successor.
C36_FlagMeansInFlight == isRunning <=> InFlight # {}

\* a cycle has thrown, the flag is cleared and the successor is being added
C36_Witness ==
  /\ variant = "chain"
  /\ ~isRunning
  /\ \E j \in Slots : pc[j] = "adding" /\ threw[j]

\* the jobs of the chain that were added without a delay
Undelayed == {j \in Slots : Live(j) /\ job[j].delay = 0}

\* C33: in the chain variant only the bootstrap job of setupQueue is added
\* without delay: there is at most one such job, and until the worker has
\* taken it no attempt has been settled and no other job exists; every
\* other job is added with CHAIN_DELAY_MS, by an invocation that has
\* finished its cycle, returned or thrown (the bootstrap's, while it is not
\* settled).
C33_SuccessorsDelayed ==
  variant = "chain"
    => /\ Cardinality(Undelayed) <= 1
       /\ \A j \in Undelayed :
            ~job[j].fetched => lastAttempt = NoAttempt /\ Outstanding = {j}
       /\ \A j \in Slots : Live(j) /\ job[j].delay # 0
            => /\ job[j].delay = CHAIN_DELAY_MS
               /\ \A k \in Undelayed : pc[k] = "resolved"

\* a cycle runs from a delayed successor that was added after a failed cycle
C33_Witness ==
  /\ variant = "chain"
  /\ lastAttempt.threw
  /\ \E j \in Slots : pc[j] = "main" /\ job[j].delay = CHAIN_DELAY_MS

----------------------------------------------------------------------------
(* Claims about the queue after shutdown *)

\* C37: once shutdown has closed the queue, and so after shutdown has
\* completed, no runMainLoop starts in this process, also when the cycle
\* that was in flight has added its successor in its finally block.
C37_NoCycleAfterShutdown ==
  [][conn.queue = "closed" => InFlight' \subseteq InFlight]_vars

\* shutdown has completed and the successor the last cycle added is left
\* in the queue
C37_Witness ==
  /\ variant = "chain"
  /\ conn.queue = "closed"
  /\ \E h \in Handlers : shutdowns[h] = "done"
  /\ \E j \in Slots : job[j].st \in {"delayed", "waiting"} /\ job[j].delay = CHAIN_DELAY_MS

----------------------------------------------------------------------------
(* Claims about the logins of TweetScraper.initialize *)

\* C38: once a login has succeeded and the isLoggedIn probe has confirmed
\* the session, initialize calls login no more, also when saving the
\* cookies fails.
C38_NoLoginAfterConfirmed ==
  session.confirmed => session.pc \notin {"login", "loginProbe", "retryDelay"}


----------------------------------------------------------------------------
(* Claims about the lifetime of cache entries *)

\* C34: a fetcher result is stored with a TTL of 600 s and an analysis with
\* a TTL of 3600 s, counted from the store; a call that starts when no
\* unexpired entry of its parameters exists makes a live fetch (or oracle
\* call), so an expired value is never returned, and what it then stores has
\* the full TTL again.
C34_ExpiredNeverServed ==
  /\ \A p \in Params :
       cacheKey(p) \in DOMAIN cache
         => /\ stored[p].has
            /\ cache[cacheKey(p)].val = stored[p].text
            /\ cache[cacheKey(p)].exp = stored[p].at + Window(p)
  /\ \A c \in Calls :
       (calls[c].pc # "idle" /\ ~calls[c].fresh)
         => (calls[c].pc = "fetch" \/ calls[c].live > 0)
  /\ \A c \in Calls :
       (calls[c].pc = "done" /\ calls[c].live = 0)
         => /\ calls[c].fresh
            /\ calls[c].ret = Parse(subject, calls[c].seenText)

\* an analysis stored an hour or more ago has expired: the call asked the
\* oracle again and stored the answer with a TTL of 3600 s from now
C34_Witness ==
  \E c \in Calls :
    /\ subject.op = "getCachedAnalysis"
    /\ now >= 3600
    /\ calls[c].pc = "done" /\ calls[c].live = 1
    /\ calls[c].seenText # "" /\ ~calls[c].fresh
    /\ stored[subject].at = now
    /\ cache[cacheKey(subject)].exp = now + 3600


----------------------------------------------------------------------------
(* Claims about the statistics of the envelope *)

\* a quotient is a number between 0 and 1 (scores are in hundredths)
InUnitInterval(q) == q.den > 0 /\ 0 <= q.num /\ q.num <= 100 * q.den

\* C35: in every published envelope averageScore and averageCredibility
\* are defined numbers in [0,1], the means over the items of the envelope,
\* also in a cycle in which no item passes the significance filter.
C35_AveragesDefined ==
  (variant = "chain" /\ cycle.pc = "returned")
    => /\ InUnitInterval(cycle.statistics.averageScore)
       /\ InUnitInterval(cycle.statistics.averageCredibility)
       /\ cycle.statistics.averageScore.den = Len(cycle.significantTweets)
       /\ cycle.statistics.averageCredibility.den = Len(cycle.significantTweets)


----------------------------------------------------------------------------
(* Claims about failed items and about the input of analyzeTweets *)

C40_InputUntouched ==
  [][/\ tweets' = tweets
     /\ \A k \in DOMAIN results' :
          /\ k \in DOMAIN tweets
          /\ results'[k].id = tweets[k]
          /\ DOMAIN results'[k] = {"id", "analysis"}]_vars

\* a call with a cache hit (t2) and misses (t1, twice) has returned: the
\* input still is what was given
C40_Witness ==
  /\ apc = "returned"
  /\ tweets = <<"t1", "t2", "t1">>
  /\ Len(results) = 3
  /\ oracleCalls["t2"] = 0 /\ oracleCalls["t1"] = 2


----------------------------------------------------------------------------
(* The oracle requests of analyzeTweets over the cycles, counted *)

\* analyzeTweets calls are followed up to MaxAnalyzeCalls
MaxAnalyzeCalls == 2

\* how many tweets without a cached analysis a cycle passes to
\* analyzeTweets: each of them is one request to the oracle
ColdTweets == {0, 3, BATCH_SIZE, BATCH_SIZE + 2}

requestsFrame ==
  UNCHANGED <<orchVars, cacheVars, fetchVars, analyzeVars, scoreVars, sessionVars,
              feedVars, shutdownVars, balance>>

\* batch.map(tweet => this.getCachedAnalysis(tweet)) for the next
\* BATCH_SIZE tweets: their requests are sent, Promise.all awaits them
SendBatch(r) ==
  [r EXCEPT !.pc = "await",
            !.inFlight = Min(r.left, BATCH_SIZE),
            !.left = r.left - Min(r.left, BATCH_SIZE)]

\* the processor runs a cycle, and runMainLoop calls analyzeTweets: an
\* earlier call has returned or thrown
CycleAnalyzes(cold) ==
  /\ requests.pc \in {"idle", "returned", "thrown"}
  /\ requests.n < MaxAnalyzeCalls
  /\ requests' = IF cold = 0
                 THEN [requests EXCEPT !.pc = "returned", !.n = @ + 1]
                 ELSE SendBatch([requests EXCEPT !.n = @ + 1, !.left = cold])
  /\ requestsFrame

\* the oracle answers a request of the batch
RequestResolves ==
  /\ requests.pc = "await"
  /\ requests.inFlight > 0
  /\ requests' = [requests EXCEPT !.inFlight = @ - 1]
  /\ requestsFrame

\* Promise.all resolves: the delay before the next batch starts, or
\* analyzeTweets returns
AllResolved ==
  /\ requests.pc = "await"
  /\ requests.inFlight = 0
  /\ requests' = [requests EXCEPT !.pc = IF requests.left > 0 THEN "delay" ELSE "returned"]
  /\ requestsFrame

\* a request of the batch is rejected: Promise.all rejects and
\* analyzeTweets throws; nothing cancels the other requests of the batch,
\* which stay pending
RequestRejects ==
  /\ requests.pc = "await"
  /\ requests.inFlight > 0
  /\ requests' = [requests EXCEPT !.pc = "thrown",
                                  !.inFlight = 0,
                                  !.stragglers = @ + requests.inFlight - 1]
  /\ requestsFrame

\* the 1000 ms between two batches are over
NextBatch ==
  /\ requests.pc = "delay"
  /\ requests' = SendBatch(requests)
  /\ requestsFrame

\* a request left pending by a call that threw is answered or rejected
StragglerSettles ==
  /\ requests.stragglers > 0
  /\ requests' = [requests EXCEPT !.stragglers = @ - 1]
  /\ requestsFrame

\* the requests that wait for the oracle
RequestsInFlight == requests.inFlight + requests.stragglers

InitRequests == OrchIdle /\ CacheInit /\ FetchIdle /\ AnalyzeIdle /\ ServiceIdle

NextRequests ==
  \/ \E cold \in ColdTweets : CycleAnalyzes(cold)
  \/ RequestResolves
  \/ AllResolved
  \/ RequestRejects
  \/ NextBatch
  \/ StragglerSettles

SpecRequests == InitRequests /\ [][NextRequests]_vars

\* C32: at every instant at most 10 (BATCH_SIZE) oracle requests are in
\* flight, over any sequence of cycles, also when a cycle starts after an
\* earlier one failed with requests of its batch still pending.
C32_AtMostBatchInFlight == RequestsInFlight <= 10


----------------------------------------------------------------------------
(* BalanceClient *)

\* the recurring job is followed for MaxRepeats of its instances
MaxRepeats == 5

\* attempts: 3 of the recurring balance job
BALANCE_ATTEMPTS == 3

balanceFrame ==
  UNCHANGED <<orchVars, cacheVars, fetchVars, analyzeVars, scoreVars, sessionVars,
              feedVars, shutdownVars, requests>>

\* initialize: await this.setupQueue() empties the queue, registers the
\* processor and adds the recurring job; then this.runBalanceCheck() is
\* called, with no look at isRunning
BalanceInitialize ==
  /\ balance.pc = "constructed"
  /\ balance' = [balance EXCEPT !.pc = "immediate", !.armed = TRUE]
  /\ balanceFrame

\* the immediate check returns or throws, and initialize with it
ImmediateCheckSettles ==
  /\ balance.pc = "immediate"
  /\ balance' = [balance EXCEPT !.pc = "initialized"]
  /\ balanceFrame

\* repeat: { every: 5 * 60 * 1000 }: the next instance of the recurring job
\* is due
RepeatFires ==
  /\ balance.armed
  /\ ~balance.due
  /\ balance.fired < MaxRepeats
  /\ balance' = [balance EXCEPT !.due = TRUE, !.fired = @ + 1]
  /\ balanceFrame

\* the processor is invoked for a job, a new instance or a retry: it
\* returns at once when isRunning is set, otherwise it sets isRunning and
\* calls runBalanceCheck
BalanceProcessor(retry) ==
  /\ balance.worker = "idle"
  /\ IF retry THEN balance.retry ELSE balance.due
  /\ LET taken == IF retry
                  THEN [balance EXCEPT !.retry = FALSE]
                  ELSE [balance EXCEPT !.due = FALSE, !.attemptsMade = 0]
     IN balance' = IF balance.isRunning
                   THEN [taken EXCEPT !.attemptsMade = 0]
                   ELSE [taken EXCEPT !.isRunning = TRUE, !.worker = "check"]
  /\ balanceFrame

\* runBalanceCheck returns in the processor: finally { isRunning = false }
BalanceCheckReturns ==
  /\ balance.worker = "check"
  /\ balance' = [balance EXCEPT !.worker = "idle", !.isRunning = FALSE,
                                !.attemptsMade = 0]
  /\ balanceFrame

\* runBalanceCheck throws in the processor: the catch block rethrows, the
\* finally block clears isRunning, and the queue retries the job while it
\* has attempts left
BalanceCheckThrows ==
  /\ balance.worker = "check"
  /\ balance' = [balance EXCEPT !.worker = "idle", !.isRunning = FALSE,
                                !.attemptsMade = @ + 1,
                                !.retry = balance.attemptsMade + 1 < BALANCE_ATTEMPTS]
  /\ balanceFrame

\* the runBalanceCheck executions in flight
BalanceChecks ==
  (IF balance.pc = "immediate" THEN 1 ELSE 0) + (IF balance.worker = "check" THEN 1 ELSE 0)

InitBalance == OrchIdle /\ CacheInit /\ FetchIdle /\ AnalyzeIdle /\ ServiceIdle

NextBalance ==
  \/ BalanceInitialize
  \/ ImmediateCheckSettles
  \/ RepeatFires
  \/ \E retry \in BOOLEAN : BalanceProcessor(retry)
  \/ BalanceCheckReturns
  \/ BalanceCheckThrows

SpecBalance == InitBalance /\ [][NextBalance]_vars

\* C39: at most one runBalanceCheck execution of the BalanceClient is in
\* flight at any instant, the immediate check of initialize() included.
C39_OneBalanceCheck == BalanceChecks <= 1

====
